---- MODULE Spec2Model ----
(***************************************************************************)
(* A model of the TimeBack client library (timeback_client).               *)
(*                                                                         *)
(* One API object is under test in each behaviour, as in the repository's  *)
(* own tests (api = UsersAPI(URL), api = CoursesAPI(URL), ...).  Its       *)
(* attributes are the state; each public method is one action; the remote  *)
(* services (identity provider, OneRoster / QTI endpoints) are inputs      *)
(* chosen with \E.  Every action records the HTTP traffic of the call and  *)
(* its outcome in `last`, so properties of a call are state predicates.    *)
(*                                                                         *)
(* Encoding of Python / JSON values                                        *)
(*   None (token, expiry)  -> None (= -1)                                  *)
(*   dict of fields        -> function from present keys to strings; a     *)
(*                            reference {"sourcedId": x} is the string x,  *)
(*                            {} is "" and a reference without sourcedId   *)
(*                            is "nosid"                                   *)
(*   nested envelope       -> [none, env, fields]: env is the sequence of  *)
(*                            envelope keys around the fields, so          *)
(*                            {"course": {"course": F}} has env            *)
(*                            <<"course", "course">>                       *)
(***************************************************************************)
EXTENDS Integers, Sequences, FiniteSets, TLC

\* ------------------------------------------------------------------------
\* Bounds of the model
\* ------------------------------------------------------------------------
StartTime == 1000
TickStep == 30
MaxClock == 1060
MaxIssued == 2

\* ------------------------------------------------------------------------
\* Program constants
\* ------------------------------------------------------------------------
RefreshMargin == 60

None == -1

STAGING_IDP == "https://alpha-auth-development-idp.auth.us-west-2.amazoncognito.com"
PRODUCTION_IDP == "https://alpha-auth-production-idp.auth.us-west-2.amazoncognito.com"
DEFAULT_QTI_STAGING_URL == "https://qti-staging.alpha-1edtech.com/api"
DEFAULT_QTI_PRODUCTION_URL == "https://qti.alpha-1edtech.com/api"
DEFAULT_STAGING_URL == "https://api.staging.alpha-1edtech.com"
DEFAULT_PRODUCTION_URL == "https://api.alpha-1edtech.com"

ROSTERING_PATH == "/ims/oneroster/rostering/v1p2"
QTI_PATH == "/ims/oneroster/qti/v1p2"
RESOURCES_PATH == "/ims/oneroster/resources/v1p2"
EDUBRIDGE_PATH == "/edubridge"

\* ------------------------------------------------------------------------
\* The API classes and what their constructors set
\* ------------------------------------------------------------------------
RosteringClasses ==
    {"UsersAPI", "CoursesAPI", "ComponentsAPI", "ComponentResourcesAPI",
     "ResourcesAPI", "ClassesAPI", "EnrollmentsAPI", "OrgsAPI",
     "AcademicSessionsAPI"}

QTIClasses == {"AssessmentItemsAPI", "StimulusAPI", "AssessmentTestAPI"}

APIClasses == RosteringClasses \cup QTIClasses

Environments == {"staging", "production"}

\* TimeBackService.__init__: api_path = /ims/oneroster/{service}/v1p2
InitApiPath(c) ==
    IF c \in QTIClasses THEN QTI_PATH
    ELSE IF c = "ResourcesAPI" THEN RESOURCES_PATH
    ELSE ROSTERING_PATH

\* TimeBackClient.__init__: the URL an instance is built with
InitBaseUrl(c, env) ==
    IF c \in QTIClasses
    THEN (IF env = "staging" THEN DEFAULT_QTI_STAGING_URL
                             ELSE DEFAULT_QTI_PRODUCTION_URL)
    ELSE (IF env = "staging" THEN DEFAULT_STAGING_URL
                             ELSE DEFAULT_PRODUCTION_URL)

\* ------------------------------------------------------------------------
\* Dicts and envelopes
\* ------------------------------------------------------------------------
EmptyDict == [k \in {} |-> ""]

NoneBody == [none |-> TRUE, env |-> <<>>, fields |-> EmptyDict]

Dict(f) == [none |-> FALSE, env |-> <<>>, fields |-> f]

\* {key: b}
Wrap(key, b) == [none |-> FALSE, env |-> <<key>> \o b.env, fields |-> b.fields]

\* b[key] for a key that is an envelope of b
Unwrap(b) == [none |-> FALSE, env |-> Tail(b.env), fields |-> b.fields]

\* Python: key in b
InDict(key, b) ==
    IF b.env # <<>> THEN Head(b.env) = key ELSE key \in DOMAIN b.fields

\* Python: d.get(key) is truthy, for a plain dict of fields
GetTruthy(f, key) == key \in DOMAIN f /\ f[key] # ""

\* Python: d.get(key) and d.get(key).get('sourcedId'), for a reference field
RefHasSourcedId(f, key) == key \in DOMAIN f /\ f[key] \notin {"", "nosid"}

\* Python truthiness of the cached token / expiry (None, 0 and "" are falsy)
Truthy(x) == x # None /\ x # 0

\* Python: bool(data) for a request body (json=data if data else None)
BodyTruthy(b) == ~b.none /\ (b.env # <<>> \/ DOMAIN b.fields # {})

\* ------------------------------------------------------------------------
\* HTTP replies (inputs from the remote services)
\* ------------------------------------------------------------------------
\* 0 stands for "no response": requests raises ConnectionError
NoResponse == 0

Statuses == {NoResponse, 200, 304, 404, 500}

\* variant: only 5xx statuses are errors
IsServerError(status) == status >= 500 /\ status < 600

\* requests.Response.ok / raise_for_status: an error is 400..599
IsHTTPError(status) == status >= 400 /\ status < 600

\* requests.Response.__bool__ is Response.ok
ResponseBool(status) == ~IsHTTPError(status)

ExpiresInChoices == {60, 90}

VARIABLES
    cls,            \* class of the API object under test
    base_url,       \* self.base_url
    api_path,       \* self.api_path
    environment,    \* self.environment
    client_id,      \* self.client_id is set
    client_secret,  \* self.client_secret is set
    access_token,   \* self._access_token
    token_expiry,   \* self._token_expiry
    clock,          \* time.time()
    issued,         \* tokens issued so far by the identity provider
    last,           \* the most recent call: its HTTP traffic and outcome
    store,          \* what the remote server holds, by sourcedId
    api_registry,   \* self._api_registry of a service object
    client,         \* the TimeBackClient that holds the object
    threads,        \* each thread's position in a call and its local values
    grants          \* the identity provider's record of each token it issued

vars == <<cls, base_url, api_path, environment, client_id, client_secret,
          access_token, token_expiry, clock, issued, last, store, api_registry,
          client, threads, grants>>

\* what a call made by the one thread of a sequential program leaves alone
attrs == <<cls, base_url, api_path, environment, client_id, client_secret,
           api_registry, client, threads, grants>>


\* ------------------------------------------------------------------------
\* Records of a call
\* ------------------------------------------------------------------------
\* One HTTP request sent during a call, with the response it got.
\*   req    which _make_request of the call sent it (1, 2, ...)
\*   pre    the token cache and the time when that _make_request began
TokenEvent(req, pre, idp, tr, granted) ==
    [kind |-> "token", req |-> req, pre |-> pre, method |-> "POST",
     host |-> idp, path |-> "", endpoint |-> <<"oauth2", "token">>,
     body |-> NoneBody, params |-> EmptyDict, auth |-> None,
     status |-> tr.status, text |-> "json", json |-> NoneBody,
     granted |-> granted, expires_in |-> tr.expires_in]

ApiEvent(req, pre, method, host, path, endpoint, data, params, auth, r) ==
    [kind |-> "api", req |-> req, pre |-> pre, method |-> method,
     host |-> host, path |-> path, endpoint |-> endpoint,
     body |-> IF BodyTruthy(data) THEN data ELSE NoneBody,
     params |-> params, auth |-> auth,
     status |-> r.status, text |-> r.text, json |-> r.json,
     granted |-> None, expires_in |-> 0]

Returned(status, text, value) ==
    [kind |-> "return", exc |-> "", status |-> status, text |-> text,
     value |-> value]

Raised(exc, status, text, value) ==
    [kind |-> "raise", exc |-> exc, status |-> status, text |-> text,
     value |-> value]

\* response.raise_for_status() and the conversion of the response body
ResponseOutcome(r) ==
    IF r.status = NoResponse
    THEN Raised("ConnectionError", NoResponse, "empty", NoneBody)
    ELSE IF IsHTTPError(r.status)
    THEN Raised("HTTPError", r.status, r.text, r.json)
    ELSE IF r.text = "empty"
    THEN Returned(r.status, "empty", NoneBody)
    ELSE Returned(r.status, r.text, r.json)

\* ------------------------------------------------------------------------
\* TimeBackService._get_auth_token
\*   st = [tok, exp, issued, now]; tr is the identity provider's reply
\* ------------------------------------------------------------------------
\* variant: the cached token is still used at the instant of its expiry
TokenStillValidAtExpiry(st) ==
    Truthy(st.tok) /\ Truthy(st.exp) /\ st.now <= st.exp

TokenStillValid(st) ==
    Truthy(st.tok) /\ Truthy(st.exp) /\ st.now < st.exp

HasCredentials == client_id /\ client_secret

IdpUrl == IF environment = "staging" THEN STAGING_IDP ELSE PRODUCTION_IDP

NewExpiry(now, expires_in) == now + expires_in - RefreshMargin

\* variant: a failed token request clears the cache
get_auth_token_clears_cache(req, st, tr) ==
    IF TokenStillValid(st)
    THEN [token |-> st.tok, raised |-> FALSE, status |-> 200, st |-> st,
          events |-> <<>>]
    ELSE IF ~HasCredentials
    THEN [token |-> None, raised |-> FALSE, status |-> 200, st |-> st,
          events |-> <<>>]
    ELSE IF IsHTTPError(tr.status)
    THEN [token |-> None, raised |-> TRUE, status |-> tr.status,
          st |-> [st EXCEPT !.tok = None, !.exp = None],
          events |-> <<TokenEvent(req, st, IdpUrl, tr, None)>>]
    ELSE [token |-> st.issued + 1, raised |-> FALSE, status |-> tr.status,
          st |-> [st EXCEPT !.tok = st.issued + 1,
                            !.exp = NewExpiry(st.now, tr.expires_in),
                            !.issued = st.issued + 1],
          events |-> <<TokenEvent(req, st, IdpUrl, tr, st.issued + 1)>>]

get_auth_token(req, st, tr) ==
    IF TokenStillValid(st)
    THEN [token |-> st.tok, raised |-> FALSE, status |-> 200, st |-> st,
          events |-> <<>>]
    ELSE IF ~HasCredentials
    THEN [token |-> None, raised |-> FALSE, status |-> 200, st |-> st,
          events |-> <<>>]
    ELSE IF IsHTTPError(tr.status)
    THEN [token |-> None, raised |-> TRUE, status |-> tr.status, st |-> st,
          events |-> <<TokenEvent(req, st, IdpUrl, tr, None)>>]
    ELSE [token |-> st.issued + 1, raised |-> FALSE, status |-> tr.status,
          st |-> [st EXCEPT !.tok = st.issued + 1,
                            !.exp = NewExpiry(st.now, tr.expires_in),
                            !.issued = st.issued + 1],
          events |-> <<TokenEvent(req, st, IdpUrl, tr, st.issued + 1)>>]

\* ------------------------------------------------------------------------
\* _make_request, as each class implements it
\*   r1 is the reply to the request, r2 the reply to a second attempt
\* ------------------------------------------------------------------------
\* which classes ask for a bearer token before sending
SendsAuth(c) == c \notin {"AssessmentItemsAPI", "AssessmentTestAPI"}

\* which classes have the retry logic
HasFallback(c) == c \in {"AssessmentItemsAPI", "StimulusAPI"}

\* variant: the fallback ignores the environment
ShouldRetryAnyEnvironment(c, status) ==
    HasFallback(c) /\ status = 404

\* if response.status_code == 404 and self.environment.lower() == 'staging'
ShouldRetry(c, status) ==
    HasFallback(c) /\ status = 404 /\ environment = "staging"

\* the path between the base URL and the endpoint
UrlPath(c, path) == IF c \in QTIClasses THEN "" ELSE path

\* ------------------------------------------------------------------------
\* TimeBackService._apply_case_insensitive_sort
\*   a collection response {"users": [...]} is [key, items]; an item is a
\*   dict whose values are strings, or dicts of strings (metadata)
\* ------------------------------------------------------------------------
\* isinstance(response_data[k], list) for some key k
IsCollection(v) == "items" \in DOMAIN v

Collection(key, items) == [key |-> key, items |-> items]

\* str.lower() on the strings of the model
Lower(s) ==
    CASE s = "A" -> "a"
      [] s = "B" -> "b"
      [] s = "ASC" -> "asc"
      [] s = "DESC" -> "desc"
      [] s = "Staging" -> "staging"
      [] s = "STAGING" -> "staging"
      [] s = "Production" -> "production"
      [] OTHER -> s

\* the order of Python strings, on the lowered strings of the model
Rank(s) ==
    CASE s = "" -> 0
      [] s = "a" -> 1
      [] s = "b" -> 2
      [] OTHER -> 3

\* key=lambda x: str(x.get(sort_field, '')).lower()
SortKey(x, sort_field) ==
    Rank(Lower(IF sort_field \in DOMAIN x THEN x[sort_field] ELSE ""))

\* sorted() is stable, also with reverse=True: x goes after the items that
\* do not come later than it
RECURSIVE InsertSorted(_, _, _, _)
InsertSorted(x, s, sort_field, reverse) ==
    IF s = <<>> THEN <<x>>
    ELSE LET later == IF reverse
                      THEN SortKey(Head(s), sort_field) < SortKey(x, sort_field)
                      ELSE SortKey(Head(s), sort_field) > SortKey(x, sort_field)
         IN  IF later THEN <<x>> \o s
             ELSE <<Head(s)>> \o InsertSorted(x, Tail(s), sort_field, reverse)

RECURSIVE sorted(_, _, _)
sorted(items, sort_field, reverse) ==
    IF items = <<>> THEN <<>>
    ELSE InsertSorted(items[Len(items)],
                      sorted(SubSeq(items, 1, Len(items) - 1), sort_field, reverse),
                      sort_field, reverse)

apply_case_insensitive_sort(response_data, sort_field, order_by) ==
    IF ~IsCollection(response_data) \/ response_data.items = <<>>
    THEN response_data
    ELSE [response_data EXCEPT
            !.items = sorted(response_data.items, sort_field,
                             Lower(order_by) = "desc")]

\* the classes that override _make_request leave the response as it came
OverridesMakeRequest(c) == c \in QTIClasses

\* if params and 'sort' in params and 'orderBy' in params
SortsResponse(c, params, o) ==
    /\ ~OverridesMakeRequest(c)
    /\ o.kind = "return" /\ o.text = "json"
    /\ "sort" \in DOMAIN params /\ "orderBy" \in DOMAIN params

SortedOutcome(c, params, o) ==
    IF SortsResponse(c, params, o)
    THEN [o EXCEPT !.value = apply_case_insensitive_sort(o.value, params["sort"],
                                                         params["orderBy"])]
    ELSE o

make_request(req, c, path, st, method, endpoint, data, params, tr, r1, r2) ==
    LET a == IF SendsAuth(c) THEN get_auth_token(req, st, tr)
             ELSE [token |-> None, raised |-> FALSE, status |-> 200,
                   st |-> st, events |-> <<>>]
        first == ApiEvent(req, st, method, base_url, UrlPath(c, path),
                          endpoint, data, params, a.token, r1)
        second == ApiEvent(req, st, method, DEFAULT_QTI_PRODUCTION_URL, "",
                           endpoint, data, params, a.token, r2)
    IN  IF a.raised
        THEN [st |-> a.st, events |-> a.events,
              outcome |-> Raised("HTTPError", a.status, "token", NoneBody)]
        ELSE IF r1.status # NoResponse /\ ShouldRetry(c, r1.status)
        THEN [st |-> a.st, events |-> a.events \o <<first, second>>,
              outcome |-> SortedOutcome(c, params, ResponseOutcome(r2))]
        ELSE [st |-> a.st, events |-> a.events \o <<first>>,
              outcome |-> SortedOutcome(c, params, ResponseOutcome(r1))]

\* ------------------------------------------------------------------------
\* Inputs
\* ------------------------------------------------------------------------
TokenReplies == [status : {200, 401}, expires_in : ExpiresInChoices]

SomeJson == Wrap("result", Dict([sourcedId |-> "id1"]))

NoReply == [status |-> NoResponse, text |-> "empty", json |-> NoneBody]

Replies ==
    { [status |-> s, text |-> "json", json |-> SomeJson] :
        s \in Statuses \ {NoResponse} }
    \cup { [status |-> 200, text |-> "empty", json |-> NoneBody],
           [status |-> 200, text |-> "nonjson", json |-> NoneBody],
           NoReply }

NoTokenReply == [status |-> 200, expires_in |-> 60]

\* replies that the call never reads are fixed, so that each behaviour of
\* the program is explored once
TokenReplyRead(c, st) ==
    SendsAuth(c) /\ HasCredentials /\ ~TokenStillValid(st)

SecondReplyRead(c, r1) == ShouldRetry(c, r1.status)

RepliesRead(c, st, tr, r1, r2) ==
    /\ (~TokenReplyRead(c, st) => tr = NoTokenReply)
    /\ ((~SecondReplyRead(c, r1) \/ (TokenReplyRead(c, st) /\ IsHTTPError(tr.status)))
            => r2 = NoReply)
    /\ ((TokenReplyRead(c, st) /\ IsHTTPError(tr.status)) => r1 = NoReply)

\* the HTTP methods that the class's forwarding methods use
MethodsOf(c) ==
    IF c \in QTIClasses THEN {"GET", "POST", "PUT", "DELETE"}
    ELSE IF c = "UsersAPI" THEN {"GET"}
    ELSE {"GET", "DELETE"}

Now == [tok |-> access_token, exp |-> token_expiry, issued |-> issued,
        now |-> clock]

NoCall == [op |-> "none", id |-> "", events |-> <<>>,
           outcome |-> Returned(200, "empty", NoneBody), arg |-> NoneBody]

\* the effect of a call on the state: the token cache and the call record
Finish(op, id, arg, res) ==
    /\ res.st.issued <= MaxIssued
    /\ access_token' = res.st.tok
    /\ token_expiry' = res.st.exp
    /\ issued' = res.st.issued
    /\ last' = [op |-> op, id |-> id, events |-> res.events,
                outcome |-> res.outcome, arg |-> arg]

\* ------------------------------------------------------------------------
\* TimeBackClient.__init__: the effective environment
\*
\* A string that is not given (None) and the empty string are both falsy
\* for Python's "or"; both are "" here.
\* ------------------------------------------------------------------------
\* a or b
PyOr(a, b) == IF a # "" THEN a ELSE b

\* effective_env = (environment or env_var or 'production').lower()
EffectiveEnv(environment_arg, env_var) ==
    Lower(PyOr(PyOr(environment_arg, env_var), "production"))

\* the attribute of the client through which an object is reached
Holder(c) ==
    CASE c \in QTIClasses -> "qti"
      [] c \in {"PowerPathAPI", "PowerPathService"} -> "powerpath"
      [] OTHER -> "rostering"

\* the client: its arguments, its self.environment, and the holder of
\* the object under test
TimeBackClient_init(environment_arg, env_var, holder) ==
    [argument |-> environment_arg, env_var |-> env_var,
     environment |-> EffectiveEnv(environment_arg, env_var),
     holder |-> holder]

\* ------------------------------------------------------------------------
\* Initial state: TimeBackClient(environment=..., client_id=..., ...) builds
\* the API object and passes the environment to it
\* ------------------------------------------------------------------------
Init ==
    /\ cls \in APIClasses
    /\ environment \in Environments
    /\ base_url = InitBaseUrl(cls, environment)
    /\ api_path = InitApiPath(cls)
    /\ client_id \in BOOLEAN
    /\ client_secret \in BOOLEAN
    /\ (client_secret => client_id)
    /\ access_token = None
    /\ token_expiry = None
    /\ clock = StartTime
    /\ issued = 0
    /\ last = NoCall
    /\ store = EmptyDict
    /\ api_registry = <<>>
    /\ client = TimeBackClient_init(environment, "", Holder(cls))
    /\ threads = <<>>
    /\ grants = <<>>

\* time passes between calls
Tick ==
    /\ clock < MaxClock
    /\ clock' = clock + TickStep
    /\ UNCHANGED <<attrs, access_token, token_expiry, issued, last, store>>

\* any method that only forwards to self._make_request:
\* get_x, delete_x, list_x, and every method of the QTI classes
SimpleCall ==
    \E m \in MethodsOf(cls), tr \in TokenReplies,
       r1 \in Replies, r2 \in Replies,
       d \in {NoneBody, SomeJson} :
        /\ (d = NoneBody) = (m \in {"GET", "DELETE"})
        /\ RepliesRead(cls, Now, tr, r1, r2)
        /\ Finish("simple", "id1", d,
                  make_request(1, cls, api_path, Now, m, <<"things", "id1">>, d,
                               EmptyDict, tr, r1, r2))
        /\ UNCHANGED <<attrs, clock, store>>

\* ------------------------------------------------------------------------
\* EnrollmentsAPI.reset_progress
\* ------------------------------------------------------------------------
Ids == {"id1", "id2"}

\* variant: the override is left in place
KeptPath(original, overridden) == overridden

\* finally: self.api_path = original_api_path
RestoredPath(original, overridden) == original

\* variant: api_path is restored after a successful request only
reset_progress_no_finally(user_id, course_id, st, tr, r1) ==
    LET original_api_path == api_path
        overridden == EDUBRIDGE_PATH
        res == make_request(1, cls, overridden, st, "DELETE",
                            <<"enrollments", "resetProgress", user_id, course_id>>,
                            NoneBody, EmptyDict, tr, r1, NoReply)
    IN  [res |-> res,
         api_path |-> IF res.outcome.kind = "raise" THEN overridden
                      ELSE RestoredPath(original_api_path, overridden)]

reset_progress(user_id, course_id, st, tr, r1) ==
    LET original_api_path == api_path
        overridden == EDUBRIDGE_PATH
        res == make_request(1, cls, overridden, st, "DELETE",
                            <<"enrollments", "resetProgress", user_id, course_id>>,
                            NoneBody, EmptyDict, tr, r1, NoReply)
    IN  [res |-> res, api_path |-> RestoredPath(original_api_path, overridden)]

ResetProgress ==
    /\ cls = "EnrollmentsAPI"
    /\ \E u \in Ids, tr \in TokenReplies, r1 \in Replies :
        LET c == "id1"
            out == reset_progress(u, c, Now, tr, r1)
        IN  /\ RepliesRead(cls, Now, tr, r1, NoReply)
            /\ Finish("reset_progress", u, NoneBody, out.res)
            /\ api_path' = out.api_path
            /\ UNCHANGED <<cls, base_url, environment, client_id, api_registry, client,
                         threads, grants,
                           client_secret, clock, store>>

\* ------------------------------------------------------------------------
\* UsersAPI.delete_user
\* ------------------------------------------------------------------------
\* variant: only the status is sent, the fetched fields are dropped
SetStatusOnly(f, v) ==
    [k \in {"status"} |-> v]

\* user_data['status'] = 'tobedeleted'
SetStatus(f, v) ==
    [k \in DOMAIN f \cup {"status"} |-> IF k = "status" THEN v ELSE f[k]]

\* hasattr(e, 'response') and e.response and e.response.status_code == 404
IsNotFoundError(o) ==
    o.kind = "raise" /\ o.exc = "HTTPError"
    /\ ResponseBool(o.status) /\ o.status = 404

NotFoundMessage == Returned(200, "not found or already deleted", NoneBody)

AlreadyMarkedMessage == Returned(200, "already marked for deletion", NoneBody)

\* both except clauses of delete_user
DeleteUserExcept(o) ==
    IF o.kind = "raise" /\ IsNotFoundError(o) THEN NotFoundMessage ELSE o

\* 'user' in current_user_data, for the value _make_request returned
HasUserKey(o) == o.text = "json" /\ InDict("user", o.value)

\*   g, p: the replies to the GET and to the PUT; dt: the time between them
delete_user(user_id, st, dt, tr1, g, tr2, p) ==
    LET get == make_request(1, cls, api_path, st, "GET", <<"users", user_id>>,
                            NoneBody, EmptyDict, tr1, g, NoReply)
        user_data == Unwrap(get.outcome.value).fields
        marked == Wrap("user", Dict(SetStatus(user_data, "tobedeleted")))
        put == make_request(2, cls, api_path, [get.st EXCEPT !.now = st.now + dt],
                            "PUT", <<"users", user_id>>, marked, EmptyDict,
                            tr2, p, NoReply)
    IN  IF get.outcome.kind = "raise"
        THEN [get EXCEPT !.outcome = DeleteUserExcept(get.outcome)]
        ELSE IF ~HasUserKey(get.outcome)
        THEN [get EXCEPT !.outcome = Raised("ValueError", get.outcome.status,
                                            "invalid response format", NoneBody)]
        ELSE IF "status" \in DOMAIN user_data /\ user_data["status"] = "tobedeleted"
        THEN [get EXCEPT !.outcome = AlreadyMarkedMessage]
        ELSE [st |-> put.st, events |-> get.events \o put.events,
              outcome |-> DeleteUserExcept(put.outcome)]

\* what the server may hold for a user
UserRecords ==
    { [sourcedId |-> "id1", givenName |-> "Ann", status |-> "active"],
      [sourcedId |-> "id1", givenName |-> "Ann", status |-> "tobedeleted"],
      [sourcedId |-> "id1", givenName |-> "Ann"] }

UserReplies ==
    { [status |-> 200, text |-> "json", json |-> Wrap("user", Dict(u))] :
        u \in UserRecords }
    \cup Replies

\* whether delete_user gets as far as its PUT
ReachesPut(o) ==
    /\ o.kind = "return" /\ HasUserKey(o)
    /\ ~("status" \in DOMAIN Unwrap(o.value).fields
         /\ Unwrap(o.value).fields["status"] = "tobedeleted")

DeleteUser ==
    /\ cls = "UsersAPI"
    /\ \E dt \in {0, TickStep}, tr1 \in TokenReplies, g \in UserReplies,
          tr2 \in TokenReplies, p \in Replies :
        LET get == make_request(1, cls, api_path, Now, "GET", <<"users", "id1">>,
                                NoneBody, EmptyDict, tr1, g, NoReply)
            mid == [get.st EXCEPT !.now = clock + dt]
            out == delete_user("id1", Now, dt, tr1, g, tr2, p)
        IN  /\ clock + dt <= MaxClock
            /\ RepliesRead(cls, Now, tr1, g, NoReply)
            /\ IF ReachesPut(get.outcome)
               THEN RepliesRead(cls, mid, tr2, p, NoReply)
               ELSE tr2 = NoTokenReply /\ p = NoReply /\ dt = 0
            /\ Finish("delete_user", "id1", NoneBody, out)
            /\ clock' = clock + dt
            /\ UNCHANGED <<attrs, store>>

Next ==
    \/ Tick
    \/ SimpleCall
    \/ ResetProgress
    \/ DeleteUser

Spec == Init /\ [][Next]_vars

\* ========================================================================
\* Create and update operations of the rostering APIs
\*
\* A payload is [form, fields]: a model instance ("model", fields are its
\* attributes), a dict wrapped under the envelope key ("wrapped") or a
\* plain dict of fields ("unwrapped").  Field values are strings: "" is an
\* empty value, a reference {"sourcedId": x} is x, a reference without a
\* sourcedId is "nosid".
\* ========================================================================
EnvelopeKey(c) ==
    CASE c = "UsersAPI" -> "user"
      [] c = "CoursesAPI" -> "course"
      [] c = "ComponentsAPI" -> "courseComponent"
      [] c = "ComponentResourcesAPI" -> "componentResource"
      [] c = "ResourcesAPI" -> "resource"
      [] c = "ClassesAPI" -> "class"
      [] c = "EnrollmentsAPI" -> "enrollment"
      [] c = "OrgsAPI" -> "org"
      [] c = "AcademicSessionsAPI" -> "academicSession"

Endpoint(c) ==
    CASE c = "UsersAPI" -> <<"users">>
      [] c = "CoursesAPI" -> <<"courses">>
      [] c = "ComponentsAPI" -> <<"courses", "components">>
      [] c = "ComponentResourcesAPI" -> <<"courses", "component-resources">>
      [] c = "ResourcesAPI" -> <<"resources">>
      [] c = "ClassesAPI" -> <<"classes">>
      [] c = "EnrollmentsAPI" -> <<"enrollments">>
      [] c = "OrgsAPI" -> <<"orgs">>
      [] c = "AcademicSessionsAPI" -> <<"academicSessions">>

\* the dict a caller passes
AsDict(key, p) ==
    IF p.form = "wrapped" THEN Wrap(key, Dict(p.fields)) ELSE Dict(p.fields)

\* a reference value read as a dict
RefDict(r) == IF r \in {"", "nosid"} THEN EmptyDict ELSE [sourcedId |-> r]

\* Python: b[key], the dict of fields under key
Inner(key, b) ==
    IF b.env # <<>> THEN b.fields ELSE RefDict(b.fields[key])

\* Python: if key not in d: d[key] = v
SetDefault(f, key, v) ==
    IF key \in DOMAIN f THEN f
    ELSE [k \in DOMAIN f \cup {key} |-> IF k = key THEN v ELSE f[k]]

\* Python: d[key] = v
SetField(f, key, v) ==
    [k \in DOMAIN f \cup {key} |-> IF k = key THEN v ELSE f[k]]

\* the request data of the dict branches: the dict as passed when it has
\* the envelope key, {key: dict} otherwise; inner is the dict of fields
\* after the operation's assignments to it
RequestData(key, b, inner) ==
    IF b.env # <<>> THEN Wrap(key, Dict(inner))
    ELSE IF key \in DOMAIN b.fields THEN b
    ELSE Wrap(key, Dict(inner))

Err(exc) == [exc |-> exc, data |-> NoneBody]

Ok(data) == [exc |-> "", data |-> data]

\* the keys of f among keys, with those of optional whose value is truthy
Emit(f, always, optional) ==
    [k \in always \cup {o \in optional \cap DOMAIN f : f[o] # ""} |-> f[k]]

\* _validate_reference: a reference without sourcedId becomes None
validate_reference(r) == IF r \in {"", "nosid"} THEN "" ELSE r

\* ---- models ------------------------------------------------------------
\* Course.__init__(**d): [exc, fields]
Course_init(d) ==
    IF ~GetTruthy(d, "title") \/ ~GetTruthy(d, "courseCode")
       \/ ~RefHasSourcedId(d, "org")
    THEN [exc |-> "ValueError", fields |-> EmptyDict]
    ELSE [exc |-> "",
          fields |->
            [sourcedId |-> IF GetTruthy(d, "sourcedId") THEN d["sourcedId"]
                           ELSE "generated",
             status |-> IF "status" \in DOMAIN d
                           /\ d["status"] \in {"active", "tobedeleted"}
                        THEN d["status"] ELSE "active",
             dateLastModified |-> "now",
             title |-> d["title"], courseCode |-> d["courseCode"],
             org |-> validate_reference(d["org"])]]

Course_to_dict(f) ==
    Wrap("course",
         Dict(Emit(f, {"sourcedId", "status", "dateLastModified", "title",
                       "courseCode"}, {"org"})))

Component_init(d) ==
    IF ~GetTruthy(d, "title") \/ ~RefHasSourcedId(d, "course")
       \/ "sortOrder" \notin DOMAIN d
    THEN [exc |-> "ValueError", fields |-> EmptyDict]
    ELSE [exc |-> "",
          fields |->
            [sourcedId |-> IF GetTruthy(d, "sourcedId") THEN d["sourcedId"]
                           ELSE "generated",
             status |-> IF "status" \in DOMAIN d
                           /\ d["status"] \in {"active", "tobedeleted"}
                        THEN d["status"] ELSE "active",
             dateLastModified |-> "now",
             title |-> d["title"], course |-> validate_reference(d["course"]),
             sortOrder |-> d["sortOrder"],
             courseComponent |-> IF "courseComponent" \in DOMAIN d
                                 THEN validate_reference(d["courseComponent"])
                                 ELSE ""]]

Component_to_dict(f) ==
    Wrap("courseComponent",
         Dict(Emit(f, {"sourcedId", "status", "dateLastModified", "title",
                       "course", "sortOrder"}, {"courseComponent"})))

AcademicSession_init(d) ==
    IF \/ \E k \in {"title", "type", "startDate", "endDate", "schoolYear"} :
            ~GetTruthy(d, k)
       \/ ~RefHasSourcedId(d, "org")
    THEN [exc |-> "ValueError", fields |-> EmptyDict]
    ELSE [exc |-> "",
          fields |->
            [sourcedId |-> IF GetTruthy(d, "sourcedId") THEN d["sourcedId"]
                           ELSE "generated",
             status |-> IF "status" \in DOMAIN d
                           /\ d["status"] \in {"active", "tobedeleted"}
                        THEN d["status"] ELSE "active",
             dateLastModified |-> "now",
             title |-> d["title"], type |-> d["type"],
             startDate |-> d["startDate"], endDate |-> d["endDate"],
             schoolYear |-> d["schoolYear"],
             org |-> validate_reference(d["org"])]]

AcademicSession_to_dict(f) ==
    Wrap("academicSession",
         Dict(Emit(f, {"sourcedId", "status", "dateLastModified", "title",
                       "type", "startDate", "endDate", "schoolYear", "org"},
                   {})))

\* dataclass Resource: a missing positional argument is a TypeError
Resource_init(d) ==
    IF ~({"title", "vendorResourceId"} \subseteq DOMAIN d)
    THEN [exc |-> "TypeError", fields |-> EmptyDict]
    ELSE IF "status" \in DOMAIN d /\ d["status"] \notin {"active", "tobedeleted"}
    THEN [exc |-> "ValueError", fields |-> EmptyDict]
    ELSE [exc |-> "",
          fields |->
            [title |-> d["title"], vendorResourceId |-> d["vendorResourceId"],
             sourcedId |-> IF "sourcedId" \in DOMAIN d THEN d["sourcedId"]
                           ELSE "",
             status |-> IF "status" \in DOMAIN d THEN d["status"]
                        ELSE "active"]]

Resource_to_dict(f) ==
    Wrap("resource",
         Dict(Emit(f, {"title", "vendorResourceId", "status"}, {"sourcedId"})))

ComponentResource_init(d) ==
    IF ~({"sourcedId", "courseComponent", "resource", "title"}
            \subseteq DOMAIN d)
    THEN [exc |-> "TypeError", fields |-> EmptyDict]
    ELSE IF \/ d["courseComponent"] \in {"", "nosid"}
            \/ d["resource"] \in {"", "nosid"}
            \/ ("status" \in DOMAIN d
                /\ d["status"] \notin {"active", "tobedeleted"})
    THEN [exc |-> "ValueError", fields |-> EmptyDict]
    ELSE [exc |-> "",
          fields |->
            [sourcedId |-> d["sourcedId"],
             courseComponent |-> d["courseComponent"],
             resource |-> d["resource"], title |-> d["title"],
             status |-> IF "status" \in DOMAIN d THEN d["status"]
                        ELSE "active",
             sortOrder |-> IF "sortOrder" \in DOMAIN d THEN d["sortOrder"]
                           ELSE "0"]]

ComponentResource_to_dict(f) ==
    Wrap("componentResource",
         Dict(Emit(f, {"sourcedId", "status", "courseComponent", "resource",
                       "title", "sortOrder"}, {})))

\* pydantic Org: name and type are required, type is an OrgType, status a
\* Status; a ValidationError is a ValueError
Org_init(d) ==
    IF \/ ~({"name", "type"} \subseteq DOMAIN d)
       \/ d["type"] \notin {"department", "school", "district", "local",
                            "state", "national"}
       \/ ("status" \in DOMAIN d
           /\ d["status"] \notin {"active", "tobedeleted"})
    THEN [exc |-> "ValueError", fields |-> EmptyDict]
    ELSE [exc |-> "",
          fields |->
            [name |-> d["name"], type |-> d["type"],
             sourcedId |-> IF "sourcedId" \in DOMAIN d THEN d["sourcedId"]
                           ELSE "generated",
             status |-> IF "status" \in DOMAIN d THEN d["status"]
                        ELSE "active",
             dateLastModified |-> "now"]]

Org_to_dict(f) ==
    Wrap("org",
         Dict(Emit(f, {"name", "type", "sourcedId", "status",
                       "dateLastModified"}, {})))

\* pydantic User: givenName, familyName and roles are required
User_init(d) ==
    IF ~({"givenName", "familyName", "roles"} \subseteq DOMAIN d)
    THEN [exc |-> "ValueError", fields |-> EmptyDict]
    ELSE [exc |-> "",
          fields |->
            [givenName |-> d["givenName"], familyName |-> d["familyName"],
             roles |-> d["roles"],
             sourcedId |-> IF "sourcedId" \in DOMAIN d THEN d["sourcedId"]
                           ELSE "generated",
             status |-> IF "status" \in DOMAIN d THEN d["status"]
                        ELSE "active"]]

\* User defines to_api_dict, to_create_dict and to_update_dict, and no
\* to_dict: user.to_dict() raises AttributeError
User_to_dict(f) == Err("AttributeError")

\* ---- create operations -------------------------------------------------
\* variant: the org check of the dict branch is left out
create_course_no_org_check(course) ==
    IF course.form # "model"
    THEN LET b == AsDict("course", course)
             course_dict == IF InDict("course", b) THEN Inner("course", b)
                            ELSE b.fields
         IN  IF ~GetTruthy(course_dict, "title") THEN Err("ValueError")
             ELSE IF ~GetTruthy(course_dict, "courseCode") THEN Err("ValueError")
             ELSE Ok(RequestData("course", b,
                                 SetDefault(course_dict, "status", "active")))
    ELSE LET f == course.fields
         IN  IF ~GetTruthy(f, "title") THEN Err("ValueError")
             ELSE IF ~GetTruthy(f, "courseCode") THEN Err("ValueError")
             ELSE IF ~RefHasSourcedId(f, "org") THEN Err("ValueError")
             ELSE Ok(Wrap("course", Course_to_dict(f)))

create_course(course) ==
    IF course.form # "model"
    THEN LET b == AsDict("course", course)
             course_dict == IF InDict("course", b) THEN Inner("course", b)
                            ELSE b.fields
         IN  IF ~GetTruthy(course_dict, "title") THEN Err("ValueError")
             ELSE IF ~GetTruthy(course_dict, "courseCode") THEN Err("ValueError")
             ELSE IF "org" \notin DOMAIN course_dict THEN Err("ValueError")
             ELSE Ok(RequestData("course", b,
                                 SetDefault(course_dict, "status", "active")))
    ELSE LET f == course.fields
         IN  IF ~GetTruthy(f, "title") THEN Err("ValueError")
             ELSE IF ~GetTruthy(f, "courseCode") THEN Err("ValueError")
             ELSE IF ~RefHasSourcedId(f, "org") THEN Err("ValueError")
             ELSE Ok(Wrap("course", Course_to_dict(f)))

create_component(component) ==
    IF component.form # "model"
    THEN LET b == AsDict("courseComponent", component)
             component_dict == IF InDict("courseComponent", b)
                               THEN Inner("courseComponent", b) ELSE b.fields
         IN  IF ~GetTruthy(component_dict, "title") THEN Err("ValueError")
             ELSE IF ~GetTruthy(component_dict, "course") THEN Err("ValueError")
             ELSE IF "sortOrder" \notin DOMAIN component_dict
             THEN Err("ValueError")
             ELSE Ok(RequestData("courseComponent", b,
                                 SetDefault(component_dict, "status", "active")))
    ELSE LET f == component.fields
         IN  IF ~GetTruthy(f, "title") THEN Err("ValueError")
             ELSE IF ~RefHasSourcedId(f, "course") THEN Err("ValueError")
             ELSE Ok(Wrap("courseComponent", Component_to_dict(f)))

create_component_resource(resource) ==
    IF resource.form = "model"
    THEN Ok(ComponentResource_to_dict(resource.fields))
    ELSE LET b == AsDict("componentResource", resource)
             data == IF InDict("componentResource", b)
                     THEN Inner("componentResource", b) ELSE b.fields
         IN  IF ~({"sourcedId", "status", "courseComponent", "resource",
                   "title"} \subseteq DOMAIN data)
             THEN Err("ValueError")
             ELSE Ok(Wrap("componentResource", Dict(data)))

create_resource(resource) ==
    IF resource.form = "model"
    THEN Ok(Resource_to_dict(resource.fields))
    ELSE LET b == AsDict("resource", resource)
             data == IF InDict("resource", b) THEN Inner("resource", b)
                     ELSE b.fields
         IN  IF ~({"title", "vendorResourceId"} \subseteq DOMAIN data)
             THEN Err("ValueError")
             ELSE Ok(Wrap("resource", Dict(data)))

create_class(class_data) ==
    LET b == AsDict("class", class_data)
        class_dict == IF InDict("class", b) THEN Inner("class", b)
                      ELSE b.fields
    IN  IF ~GetTruthy(class_dict, "title") THEN Err("ValueError")
        ELSE IF ~RefHasSourcedId(class_dict, "course") THEN Err("ValueError")
        ELSE IF ~RefHasSourcedId(class_dict, "org") THEN Err("ValueError")
        ELSE IF ~GetTruthy(class_dict, "terms") THEN Err("ValueError")
        ELSE Ok(RequestData("class", b, class_dict))

create_enrollment(enrollment) ==
    LET b == AsDict("enrollment", enrollment)
        enrollment_dict == IF InDict("enrollment", b)
                           THEN Inner("enrollment", b) ELSE b.fields
    IN  IF ~GetTruthy(enrollment_dict, "role") THEN Err("ValueError")
        ELSE IF ~RefHasSourcedId(enrollment_dict, "user") THEN Err("ValueError")
        ELSE IF ~RefHasSourcedId(enrollment_dict, "class") THEN Err("ValueError")
        ELSE Ok(RequestData("enrollment", b, enrollment_dict))

create_org(org) ==
    IF org.form # "model"
    THEN LET b == AsDict("org", org)
             org_dict == IF InDict("org", b) THEN Inner("org", b)
                         ELSE b.fields
         IN  IF ~GetTruthy(org_dict, "name") THEN Err("ValueError")
             ELSE IF ~GetTruthy(org_dict, "type") THEN Err("ValueError")
             ELSE Ok(RequestData("org", b, org_dict))
    ELSE IF ~GetTruthy(org.fields, "name") THEN Err("ValueError")
         ELSE Ok(Org_to_dict(org.fields))

create_academic_session(session) ==
    IF session.form # "model"
    THEN LET b == AsDict("academicSession", session)
             session_dict == IF InDict("academicSession", b)
                             THEN Inner("academicSession", b) ELSE b.fields
         IN  IF \E k \in {"title", "type", "startDate", "endDate",
                          "schoolYear"} : ~GetTruthy(session_dict, k)
             THEN Err("ValueError")
             ELSE IF "org" \notin DOMAIN session_dict THEN Err("ValueError")
             ELSE Ok(RequestData("academicSession", b,
                                 SetDefault(session_dict, "status", "active")))
    ELSE LET f == session.fields
         IN  IF \E k \in {"title", "type", "startDate", "endDate",
                          "schoolYear"} : ~GetTruthy(f, k)
             THEN Err("ValueError")
             ELSE IF ~RefHasSourcedId(f, "org") THEN Err("ValueError")
             ELSE Ok(Wrap("academicSession", AcademicSession_to_dict(f)))

create_user(user) ==
    LET b == AsDict("user", user)
        made == IF user.form = "model"
                THEN [exc |-> "", fields |-> user.fields]
                ELSE User_init(IF InDict("user", b) THEN Inner("user", b)
                               ELSE b.fields)
    IN  IF made.exc # "" THEN Err(made.exc)
        ELSE IF ~GetTruthy(made.fields, "sourcedId") THEN Err("ValueError")
        ELSE User_to_dict(made.fields)

\* ---- update operations -------------------------------------------------
\* the model branch shared by the updates that go through a model:
\*   if 'sourcedId' not in d: d['sourcedId'] = id;  m = Model(**d)
\*   if m.sourcedId != id: m.sourcedId = id
WithId(made, id) ==
    IF made.exc # "" THEN made
    ELSE [made EXCEPT !.fields = SetField(made.fields, "sourcedId", id)]

update_course(course_id, course) ==
    IF course.form # "model"
    THEN LET b == AsDict("course", course)
             course_dict == IF InDict("course", b) THEN Inner("course", b)
                            ELSE b.fields
         IN  Ok(RequestData("course", b, course_dict))
    ELSE Ok(Course_to_dict(SetField(course.fields, "sourcedId", course_id)))

update_component(component_id, component) ==
    LET b == AsDict("courseComponent", component)
        component_dict == IF InDict("courseComponent", b)
                          THEN Inner("courseComponent", b) ELSE b.fields
        made == IF component.form = "model"
                THEN [exc |-> "", fields |-> component.fields]
                ELSE Component_init(SetDefault(component_dict, "sourcedId",
                                               component_id))
    IN  IF made.exc # "" THEN Err(made.exc)
        ELSE Ok(Component_to_dict(WithId(made, component_id).fields))

update_component_resource(resource_id, resource) ==
    LET b == AsDict("componentResource", resource)
        data == IF InDict("componentResource", b)
                THEN Inner("componentResource", b) ELSE b.fields
        made == IF resource.form = "model"
                THEN [exc |-> "", fields |-> resource.fields]
                ELSE ComponentResource_init(SetDefault(data, "sourcedId",
                                                       resource_id))
    IN  IF made.exc # "" THEN Err(made.exc)
        ELSE Ok(ComponentResource_to_dict(WithId(made, resource_id).fields))

update_resource(resource_id, resource) ==
    LET b == AsDict("resource", resource)
        data == IF InDict("resource", b) THEN Inner("resource", b)
                ELSE b.fields
        made == IF resource.form = "model"
                THEN [exc |-> "", fields |-> resource.fields]
                ELSE Resource_init(SetDefault(data, "sourcedId", resource_id))
    IN  IF made.exc # "" THEN Err(made.exc)
        ELSE Ok(Resource_to_dict(WithId(made, resource_id).fields))

update_class(class_id, class_data) ==
    LET b == AsDict("class", class_data)
        class_dict == IF InDict("class", b) THEN Inner("class", b)
                      ELSE b.fields
    IN  Ok(Wrap("class",
                Dict(IF "sourcedId" \in DOMAIN class_dict
                     THEN SetField(class_dict, "sourcedId", class_id)
                     ELSE class_dict)))

update_enrollment(enrollment_id, enrollment) ==
    LET b == AsDict("enrollment", enrollment)
        enrollment_dict == IF InDict("enrollment", b)
                           THEN Inner("enrollment", b) ELSE b.fields
    IN  Ok(Wrap("enrollment",
                Dict(IF "sourcedId" \in DOMAIN enrollment_dict
                     THEN SetField(enrollment_dict, "sourcedId", enrollment_id)
                     ELSE enrollment_dict)))

update_org(org_id, org) ==
    LET b == AsDict("org", org)
        org_dict == IF InDict("org", b) THEN Inner("org", b) ELSE b.fields
        made == IF org.form = "model"
                THEN [exc |-> "", fields |-> org.fields]
                ELSE Org_init(SetDefault(org_dict, "sourcedId", org_id))
    IN  IF made.exc # "" THEN Err(made.exc)
        ELSE Ok(Org_to_dict(WithId(made, org_id).fields))

update_academic_session(session_id, session) ==
    LET b == AsDict("academicSession", session)
        session_dict == IF InDict("academicSession", b)
                        THEN Inner("academicSession", b) ELSE b.fields
        made == IF session.form = "model"
                THEN [exc |-> "", fields |-> session.fields]
                ELSE AcademicSession_init(SetDefault(session_dict, "sourcedId",
                                                     session_id))
    IN  IF made.exc # "" THEN Err(made.exc)
        ELSE Ok(AcademicSession_to_dict(WithId(made, session_id).fields))

update_user(user_id, user) ==
    LET b == AsDict("user", user)
        made == IF user.form = "model"
                THEN [exc |-> "", fields |-> user.fields]
                ELSE User_init(IF InDict("user", b) THEN Inner("user", b)
                               ELSE b.fields)
    IN  IF made.exc # "" THEN Err(made.exc)
        ELSE User_to_dict(made.fields)

create(c, p) ==
    CASE c = "UsersAPI" -> create_user(p)
      [] c = "CoursesAPI" -> create_course(p)
      [] c = "ComponentsAPI" -> create_component(p)
      [] c = "ComponentResourcesAPI" -> create_component_resource(p)
      [] c = "ResourcesAPI" -> create_resource(p)
      [] c = "ClassesAPI" -> create_class(p)
      [] c = "EnrollmentsAPI" -> create_enrollment(p)
      [] c = "OrgsAPI" -> create_org(p)
      [] c = "AcademicSessionsAPI" -> create_academic_session(p)

update(c, id, p) ==
    CASE c = "UsersAPI" -> update_user(id, p)
      [] c = "CoursesAPI" -> update_course(id, p)
      [] c = "ComponentsAPI" -> update_component(id, p)
      [] c = "ComponentResourcesAPI" -> update_component_resource(id, p)
      [] c = "ResourcesAPI" -> update_resource(id, p)
      [] c = "ClassesAPI" -> update_class(id, p)
      [] c = "EnrollmentsAPI" -> update_enrollment(id, p)
      [] c = "OrgsAPI" -> update_org(id, p)
      [] c = "AcademicSessionsAPI" -> update_academic_session(id, p)

\* ---- the payloads callers pass (inputs) --------------------------------
BaseFields(c) ==
    CASE c = "UsersAPI" ->
            [sourcedId |-> "id1", status |-> "active", givenName |-> "A",
             familyName |-> "Lee", roles |-> "student"]
      [] c = "CoursesAPI" ->
            [sourcedId |-> "id1", status |-> "active", title |-> "A",
             courseCode |-> "C1", org |-> "id2"]
      [] c = "ComponentsAPI" ->
            [sourcedId |-> "id1", status |-> "active", title |-> "A",
             course |-> "id2", sortOrder |-> "1"]
      [] c = "ComponentResourcesAPI" ->
            [sourcedId |-> "id1", status |-> "active", title |-> "A",
             courseComponent |-> "id2", resource |-> "id2"]
      [] c = "ResourcesAPI" ->
            [sourcedId |-> "id1", status |-> "active", title |-> "A",
             vendorResourceId |-> "v1"]
      [] c = "ClassesAPI" ->
            [sourcedId |-> "id1", status |-> "active", title |-> "A",
             course |-> "id2", org |-> "id2", terms |-> "id2"]
      [] c = "EnrollmentsAPI" ->
            [sourcedId |-> "id1", status |-> "active", role |-> "student",
             user |-> "id2", class |-> "id2"]
      [] c = "OrgsAPI" ->
            [sourcedId |-> "id1", status |-> "active", name |-> "A",
             type |-> "school"]
      [] c = "AcademicSessionsAPI" ->
            [sourcedId |-> "id1", status |-> "active", title |-> "A",
             type |-> "term", startDate |-> "2024-09-01",
             endDate |-> "2024-12-20", schoolYear |-> "2024", org |-> "id2"]

\* the field a caller changes in an update
NameField(c) ==
    CASE c = "UsersAPI" -> "givenName"
      [] c = "EnrollmentsAPI" -> "role"
      [] c = "OrgsAPI" -> "name"
      [] OTHER -> "title"

RefFields == {"org", "course", "courseComponent", "resource", "user", "class"}

Drop(f, key) == [k \in DOMAIN f \ {key} |-> f[k]]

\* a valid dict and the dicts that differ from it in one field
DictFields(c) ==
    LET base == BaseFields(c)
    IN  {base}
        \cup {Drop(base, k) : k \in DOMAIN base}
        \cup {[base EXCEPT ![k] = ""] : k \in DOMAIN base \ {"sourcedId", "status"}}
        \cup {[base EXCEPT ![k] = "nosid"] : k \in RefFields \cap DOMAIN base}
        \cup {[base EXCEPT !["status"] = "tobedeleted"],
              [base EXCEPT !["sourcedId"] = "id2"],
              [base EXCEPT ![NameField(c)] = "B"]}
        \cup (IF c = "ComponentsAPI"
              THEN {SetField(base, "courseComponent", "id2")} ELSE {})
        \cup (IF c = "ResourcesAPI"
              THEN {[title |-> "A", type |-> "video", status |-> "active"],
                    [sourcedId |-> "id1", title |-> "A", type |-> "reading",
                     status |-> "active"]}
              ELSE {})

\* Model(**d)
Construct(c, d) ==
    CASE c = "UsersAPI" -> User_init(d)
      [] c = "CoursesAPI" -> Course_init(d)
      [] c = "ComponentsAPI" -> Component_init(d)
      [] c = "ComponentResourcesAPI" -> ComponentResource_init(d)
      [] c = "ResourcesAPI" -> Resource_init(d)
      [] c = "OrgsAPI" -> Org_init(d)
      [] c = "AcademicSessionsAPI" -> AcademicSession_init(d)

\* create_class and create_enrollment take dicts only
HasModel(c) == c \notin {"ClassesAPI", "EnrollmentsAPI"}

Payloads(c) ==
    {[form |-> fm, fields |-> d] :
        fm \in {"wrapped", "unwrapped"}, d \in DictFields(c)}
    \cup (IF HasModel(c)
          THEN {[form |-> "model", fields |-> Construct(c, d).fields] :
                    d \in {x \in DictFields(c) : Construct(c, x).exc = ""}}
          ELSE {})

\* ---- a server that stores what it receives -----------------------------
\* store maps a sourcedId to what was received under the envelope key
ServerIds == {"id1", "id2", "srv1"}

BadRequest == [status |-> 400, text |-> "json", json |-> NoneBody]

ServerPost(c, s, body) ==
    IF body.none \/ body.env = <<>> \/ Head(body.env) # EnvelopeKey(c)
    THEN [store |-> s, reply |-> BadRequest]
    ELSE LET entity == [env |-> Tail(body.env), fields |-> body.fields]
             id == IF entity.env = <<>> /\ GetTruthy(entity.fields, "sourcedId")
                   THEN entity.fields["sourcedId"] ELSE "srv1"
         IN  [store |-> [k \in DOMAIN s \cup {id} |->
                            IF k = id THEN entity ELSE s[k]],
              reply |-> [status |-> 200, text |-> "json",
                         json |-> Wrap("sourcedIdPairs",
                                       Dict([allocatedSourcedId |-> id]))]]

ServerPut(c, s, id, body) ==
    IF body.none \/ body.env = <<>> \/ Head(body.env) # EnvelopeKey(c)
    THEN [store |-> s, reply |-> BadRequest]
    ELSE [store |-> [k \in DOMAIN s \cup {id} |->
                        IF k = id
                        THEN [env |-> Tail(body.env), fields |-> body.fields]
                        ELSE s[k]],
          reply |-> [status |-> 200, text |-> "empty", json |-> NoneBody]]

ServerGet(c, s, id) ==
    IF id \in DOMAIN s
    THEN [status |-> 200, text |-> "json",
          json |-> [none |-> FALSE, env |-> <<EnvelopeKey(c)>> \o s[id].env,
                    fields |-> s[id].fields]]
    ELSE [status |-> 404, text |-> "json", json |-> NoneBody]

\* ---- the calls ---------------------------------------------------------
\* the identity provider grants a token or refuses
CrudTokenReplies ==
    {[status |-> 200, expires_in |-> 90], [status |-> 401, expires_in |-> 60]}

\* a call that raised before it sent anything
RaisedBefore(st, exc) ==
    [st |-> st, events |-> <<>>,
     outcome |-> Raised(exc, NoResponse, "empty", NoneBody)]

WasSent(res) == \E i \in 1..Len(res.events) : res.events[i].kind = "api"

CallArg(c, p) ==
    [none |-> FALSE, env |-> AsDict(EnvelopeKey(c), p).env,
     fields |-> p.fields, form |-> p.form]

Create ==
    \E p \in Payloads(cls), tr \in CrudTokenReplies \cup {NoTokenReply} :
        LET made == create(cls, p)
            srv == ServerPost(cls, store, made.data)
            res == IF made.exc # "" THEN RaisedBefore(Now, made.exc)
                   ELSE make_request(1, cls, api_path, Now, "POST",
                                     Endpoint(cls), made.data, EmptyDict,
                                     tr, srv.reply, NoReply)
        IN  /\ DOMAIN store = {}
            /\ IF made.exc # "" \/ ~TokenReplyRead(cls, Now)
               THEN tr = NoTokenReply ELSE tr \in CrudTokenReplies
            /\ Finish("create", "", CallArg(cls, p), res)
            /\ store' = IF WasSent(res) THEN srv.store ELSE store
            /\ UNCHANGED <<attrs, clock>>

Update ==
    \E p \in Payloads(cls), tr \in CrudTokenReplies \cup {NoTokenReply}, id \in DOMAIN store :
        LET made == update(cls, id, p)
            srv == ServerPut(cls, store, id, made.data)
            res == IF made.exc # "" THEN RaisedBefore(Now, made.exc)
                   ELSE make_request(1, cls, api_path, Now, "PUT",
                                     Endpoint(cls) \o <<id>>, made.data,
                                     EmptyDict, tr, srv.reply, NoReply)
        IN  /\ (made.exc # "" \/ ~TokenReplyRead(cls, Now)) => tr = NoTokenReply
            /\ Finish("update", id, CallArg(cls, p), res)
            /\ store' = IF WasSent(res) THEN srv.store ELSE store
            /\ UNCHANGED <<attrs, clock>>

\* get_course, get_component, ...: GET {endpoint}/{id}
Get ==
    \E id \in ServerIds, tr \in CrudTokenReplies \cup {NoTokenReply} :
        /\ IF ~TokenReplyRead(cls, Now)
           THEN tr = NoTokenReply ELSE tr \in CrudTokenReplies
        /\ Finish("get", id, NoneBody,
                  make_request(1, cls, api_path, Now, "GET",
                               Endpoint(cls) \o <<id>>, NoneBody, EmptyDict,
                               tr, ServerGet(cls, store, id), NoReply))
        /\ UNCHANGED <<attrs, clock, store>>

InitCrud ==
    /\ cls \in RosteringClasses
    /\ environment \in Environments
    /\ base_url = InitBaseUrl(cls, environment)
    /\ api_path = InitApiPath(cls)
    /\ client_id = TRUE
    /\ client_secret = TRUE
    /\ access_token = None
    /\ token_expiry = None
    /\ clock = StartTime
    /\ issued = 0
    /\ last = NoCall
    /\ store = EmptyDict
    /\ api_registry = <<>>
    /\ client = TimeBackClient_init(environment, "", Holder(cls))
    /\ threads = <<>>
    /\ grants = <<>>

NextCrud ==
    \/ Create
    \/ Update
    \/ Get

SpecCrud == InitCrud /\ [][NextCrud]_vars


\* ========================================================================
\* List operations
\*
\* The arguments of a list call are a record [limit, offset, sort, order_by,
\* filter_expr, page]: NoneInt / NoneStr / NoFilter stand for an argument the
\* caller did not give.  A filter expression is the sequence of its words:
\* "role='student' AND status='active'" is
\* <<"role='student'", "AND", "status='active'">>.
\* ========================================================================
GRADEBOOK_PATH == "/ims/oneroster/gradebook/v1p2"

NoneInt == None

NoneStr == "None"

NoFilter == <<>>

\* Python truthiness of an optional int / str argument
IntTruthy(x) == x # NoneInt /\ x # 0

StrTruthy(x) == x # NoneStr /\ x # ""

\* params[k] = v
Put(params, k, v) ==
    [x \in DOMAIN params \cup {k} |-> IF x = k THEN v ELSE params[x]]

PutIf(cond, params, k, v) == IF cond THEN Put(params, k, v) ELSE params

\* f"{a} AND {b}"
And(a, b) == a \o <<"AND">> \o b

\* "status=" in word, for the words of the model
WordHasStatusEq(w) ==
    w \in {"status='active'", "status='tobedeleted'", "metadata.substatus='x'"}

\* "status=" in filter_value
ContainsStatusEq(filter_value) ==
    \E i \in 1..Len(filter_value) : WordHasStatusEq(filter_value[i])

\* the head of most list operations
\*   if limit is not None / if offset is not None / if sort / if order_by
StandardParams(a) ==
    LET p1 == PutIf(a.limit # NoneInt, EmptyDict, "limit", a.limit)
        p2 == PutIf(a.offset # NoneInt, p1, "offset", a.offset)
        p3 == PutIf(StrTruthy(a.sort), p2, "sort", a.sort)
    IN  PutIf(StrTruthy(a.order_by), p3, "orderBy", a.order_by)

\* ... if filter_expr: params['filter'] = filter_expr
StandardList(endpoint, a) ==
    [endpoint |-> endpoint,
     params |-> PutIf(a.filter_expr # NoFilter, StandardParams(a), "filter",
                      a.filter_expr)]

StatusActive == <<"status='active'">>

list_users(a) ==
    LET filter_value ==
            IF a.filter_expr # NoFilter
            THEN (IF ~ContainsStatusEq(a.filter_expr)
                  THEN And(a.filter_expr, StatusActive)
                  ELSE a.filter_expr)
            ELSE StatusActive
    IN  [endpoint |-> <<"users">>,
         params |-> Put(StandardParams(a), "filter", filter_value)]

list_students(a) == StandardList(<<"students">>, a)

list_courses(a) == StandardList(<<"courses">>, a)

list_classes(a) == StandardList(<<"classes">>, a)

list_enrollments(a) == StandardList(<<"enrollments">>, a)

CourseFilter(course_id) == <<"course.sourcedId='" \o course_id \o "'">>

get_classes_for_course(course_id, a) ==
    [endpoint |-> <<"courses", course_id, "classes">>,
     params |-> Put(StandardParams(a), "filter",
                    IF a.filter_expr # NoFilter
                    THEN And(CourseFilter(course_id), a.filter_expr)
                    ELSE CourseFilter(course_id))]

\* list_components(parent_id=None, course_id=None): 'is not None' tests
list_components(a) ==
    LET p1 == PutIf(a.limit # NoneInt, EmptyDict, "limit", a.limit)
        p2 == PutIf(a.offset # NoneInt, p1, "offset", a.offset)
        p3 == PutIf(a.sort # NoneStr, p2, "sort", a.sort)
        p4 == PutIf(a.order_by # NoneStr, p3, "orderBy", a.order_by)
    IN  [endpoint |-> <<"courses", "components">>,
         params |-> PutIf(a.filter_expr # NoFilter, p4, "filter", a.filter_expr)]

\* if page / if limit / if sort / if order
list_test_parts(assessment_test_id, a) ==
    LET p1 == PutIf(IntTruthy(a.page), EmptyDict, "page", a.page)
        p2 == PutIf(IntTruthy(a.limit), p1, "limit", a.limit)
        p3 == PutIf(StrTruthy(a.sort), p2, "sort", a.sort)
    IN  [endpoint |-> <<"assessment-tests", assessment_test_id, "test-parts">>,
         params |-> PutIf(StrTruthy(a.order_by), p3, "order", a.order_by)]

list_assessment_tests(a) ==
    LET p1 == PutIf(a.limit # NoneInt, EmptyDict, "limit", a.limit)
    IN  [endpoint |-> <<"assessment-tests">>,
         params |-> PutIf(a.offset # NoneInt, p1, "offset", a.offset)]

list_stimuli(a) ==
    LET p1 == PutIf(a.limit # NoneInt, EmptyDict, "limit", a.limit)
        p2 == PutIf(a.offset # NoneInt, p1, "offset", a.offset)
    IN  [endpoint |-> <<"stimuli">>,
         params |-> PutIf(a.filter_expr # NoFilter, p2, "filter", a.filter_expr)]

DefaultLimit == 100

\* get_line_items(limit=100, offset=0, order_by="asc")
get_line_items(a) ==
    LET limit == IF a.limit = NoneInt THEN DefaultLimit ELSE a.limit
        offset == IF a.offset = NoneInt THEN 0 ELSE a.offset
        order_by == IF a.order_by = NoneStr THEN "asc" ELSE a.order_by
        p1 == [x \in {"limit", "offset"} |-> IF x = "limit" THEN limit ELSE offset]
        p2 == PutIf(a.filter_expr # NoFilter, p1, "filter", a.filter_expr)
    IN  [endpoint |-> <<"assessmentLineItems">>,
         params |-> IF StrTruthy(a.sort)
                    THEN Put(Put(p2, "sort", a.sort), "orderBy", order_by)
                    ELSE p2]

\* ---- the list operations of each class, and the arguments they take ----
ListClasses ==
    {"UsersAPI", "CoursesAPI", "ClassesAPI", "ComponentsAPI", "EnrollmentsAPI",
     "AssessmentTestAPI", "StimulusAPI", "LineItemsAPI"}

ListOps(c) ==
    CASE c = "UsersAPI" -> {"list_users", "list_students"}
      [] c = "CoursesAPI" -> {"list_courses"}
      [] c = "ClassesAPI" -> {"list_classes", "get_classes_for_course"}
      [] c = "ComponentsAPI" -> {"list_components"}
      [] c = "EnrollmentsAPI" -> {"list_enrollments"}
      [] c = "AssessmentTestAPI" -> {"list_test_parts", "list_assessment_tests"}
      [] c = "StimulusAPI" -> {"list_stimuli"}
      [] c = "LineItemsAPI" -> {"get_line_items"}
      [] OTHER -> {}

\* the parameters in the signature of each operation
Takes(op) ==
    CASE op = "list_test_parts" -> {"limit", "sort", "order_by", "page"}
      [] op = "list_assessment_tests" -> {"limit", "offset"}
      [] op = "list_stimuli" -> {"limit", "offset", "filter_expr"}
      [] OTHER -> {"limit", "offset", "sort", "order_by", "filter_expr"}

list_call(op, id, a) ==
    CASE op = "list_users" -> list_users(a)
      [] op = "list_students" -> list_students(a)
      [] op = "list_courses" -> list_courses(a)
      [] op = "list_classes" -> list_classes(a)
      [] op = "get_classes_for_course" -> get_classes_for_course(id, a)
      [] op = "list_components" -> list_components(a)
      [] op = "list_enrollments" -> list_enrollments(a)
      [] op = "list_test_parts" -> list_test_parts(id, a)
      [] op = "list_assessment_tests" -> list_assessment_tests(a)
      [] op = "list_stimuli" -> list_stimuli(a)
      [] OTHER -> get_line_items(a)

\* the key of the collection in the server's response
CollectionKey(op) ==
    CASE op \in {"list_users", "list_students"} -> "users"
      [] op = "list_courses" -> "courses"
      [] op \in {"list_classes", "get_classes_for_course"} -> "classes"
      [] op = "list_components" -> "courseComponents"
      [] op = "list_enrollments" -> "enrollments"
      [] op = "list_test_parts" -> "items"
      [] op = "list_assessment_tests" -> "items"
      [] op = "list_stimuli" -> "items"
      [] OTHER -> "lineItems"

\* ---- inputs ------------------------------------------------------------
Limits == {NoneInt, 0}

Offsets == {NoneInt, 0}

SortFields == {NoneStr, "title", "metadata.grade"}

Orders == {NoneStr, "asc", "DESC"}

Filters ==
    {NoFilter, <<"role='student'">>, <<"status='tobedeleted'">>,
     <<"status!='active'">>, <<"metadata.substatus='x'">>}

\* the combinations of arguments explored: paging is given as a whole, an
\* order comes with a sort field, and a sorted call is not also paged
ListArgs(op) ==
    { a \in [limit : Limits, offset : Offsets, sort : SortFields,
             order_by : Orders, filter_expr : Filters, page : {NoneInt, 0}] :
        /\ "limit" \notin Takes(op) => a.limit = NoneInt
        /\ "offset" \notin Takes(op) => a.offset = NoneInt
        /\ "sort" \notin Takes(op) => a.sort = NoneStr
        /\ "order_by" \notin Takes(op) => a.order_by = NoneStr
        /\ "filter_expr" \notin Takes(op) => a.filter_expr = NoFilter
        /\ "page" \notin Takes(op) => a.page = NoneInt
        /\ (a.offset # NoneInt /\ "limit" \in Takes(op)) => a.limit # NoneInt
        /\ (a.page # NoneInt) = (a.limit # NoneInt /\ "page" \in Takes(op))
        /\ a.order_by # NoneStr => a.sort # NoneStr
        /\ a.sort = "metadata.grade" => a.order_by = "asc"
        /\ a.sort # NoneStr =>
            /\ a.limit = NoneInt
            /\ a.filter_expr \in {NoFilter, <<"role='student'">>} }

\* what the server may hold: the titles differ in case only, or not at all
Item(id, title, grade) ==
    [sourcedId |-> id, title |-> title, metadata |-> [grade |-> grade]]

ServerItems ==
    {Item("i1", "b", "A"), Item("i2", "A", "b"), Item("i3", "a", "a")}

\* the pages a server may return: all it holds, in any order, or nothing
RECURSIVE Orderings(_)
Orderings(S) ==
    IF S = {} THEN {<<>>}
    ELSE UNION { { <<x>> \o t : t \in Orderings(S \ {x}) } : x \in S }

Pages == Orderings(ServerItems) \cup {<<>>}

ListReplies(op) ==
    { [status |-> 200, text |-> "json", json |-> Collection(CollectionKey(op), pg)] :
        pg \in Pages }
    \cup { [status |-> 500, text |-> "json", json |-> SomeJson] }

FirstPage == CHOOSE pg \in Pages : Len(pg) = Cardinality(ServerItems)

\* ---- the call ----------------------------------------------------------
ListCallArg(op, a) == [op |-> op, args |-> a]

ListCall ==
    \E op \in ListOps(cls), tr \in CrudTokenReplies \cup {NoTokenReply} :
      \E a \in ListArgs(op), r \in ListReplies(op) :
        LET q == list_call(op, "id1", a)
        IN  /\ IF ~TokenReplyRead(cls, Now)
               THEN tr = NoTokenReply ELSE tr \in CrudTokenReplies
            /\ (IsHTTPError(tr.status) /\ TokenReplyRead(cls, Now))
                    => r.status = 500
            \* the order of the page matters to a call that sorts only
            /\ (r.status = 200 /\ a.sort = NoneStr) => r.json.items = FirstPage
            /\ Finish(op, "id1", ListCallArg(op, a),
                      make_request(1, cls, api_path, Now, "GET", q.endpoint,
                                   NoneBody, q.params, tr, r, NoReply))
            /\ UNCHANGED <<attrs, clock, store>>

ListInitApiPath(c) == IF c = "LineItemsAPI" THEN GRADEBOOK_PATH ELSE InitApiPath(c)

InitList ==
    /\ cls \in ListClasses
    /\ environment = "production"
    /\ base_url = InitBaseUrl(cls, environment)
    /\ api_path = ListInitApiPath(cls)
    /\ client_id \in BOOLEAN
    /\ client_secret = client_id
    /\ access_token = None
    /\ token_expiry = None
    /\ clock = StartTime
    /\ issued = 0
    /\ last = NoCall
    /\ store = EmptyDict
    /\ api_registry = <<>>
    /\ client = TimeBackClient_init(environment, "", Holder(cls))
    /\ threads = <<>>
    /\ grants = <<>>

NextList ==
    \/ ListCall

SpecList == InitList /\ [][NextList]_vars

\* ========================================================================
\* RosteringService: the registry of API objects and __getattr__
\*
\* The registry is the dict self._api_registry in insertion order: a
\* sequence of [name, api] entries, api being the class of the instance.
\* ========================================================================
\* timeback_client/api/__init__.py: __all__
ApiAll ==
    <<"users", "assessment_items", "assessment_tests", "orgs",
      "courses", "components", "resources", "academic_sessions",
      "classes", "enrollments", "component_resources", "students",
      "caliper", "subject_tracks">>

\* the modules of the package timeback_client.api
ApiPackageModules ==
    {"academic_sessions", "applications", "assessment_items",
     "assessment_results", "assessment_tests", "caliper", "case",
     "classes", "component_resources", "components", "courses",
     "enrollments", "line_items", "orgs", "powerpath",
     "qti_stimulus", "resources", "students", "subject_tracks",
     "users"}

\* the class of each module that inherits TimeBackService
ModuleClass(m) ==
    CASE m = "academic_sessions" -> "AcademicSessionsAPI"
      [] m = "applications" -> "ApplicationsAPI"
      [] m = "assessment_items" -> "AssessmentItemsAPI"
      [] m = "assessment_results" -> "AssessmentResultsAPI"
      [] m = "assessment_tests" -> "AssessmentTestAPI"
      [] m = "caliper" -> "CaliperAPI"
      [] m = "case" -> "CaseAPI"
      [] m = "classes" -> "ClassesAPI"
      [] m = "component_resources" -> "ComponentResourcesAPI"
      [] m = "components" -> "ComponentsAPI"
      [] m = "courses" -> "CoursesAPI"
      [] m = "enrollments" -> "EnrollmentsAPI"
      [] m = "line_items" -> "LineItemsAPI"
      [] m = "orgs" -> "OrgsAPI"
      [] m = "powerpath" -> "PowerPathAPI"
      [] m = "qti_stimulus" -> "StimulusAPI"
      [] m = "resources" -> "ResourcesAPI"
      [] m = "students" -> "StudentsAPI"
      [] m = "subject_tracks" -> "SubjectTracksAPI"
      [] m = "users" -> "UsersAPI"

\* the public methods each registered class defines
ClassMethods(c) ==
    CASE c = "UsersAPI" ->
            {"create_user", "get_user", "list_users", "update_user",
             "delete_user", "list_students"}
      [] c = "AssessmentItemsAPI" ->
            {"create_assessment_item", "get_assessment_item",
             "list_assessment_items", "update_assessment_item",
             "delete_assessment_item", "process_response"}
      [] c = "AssessmentTestAPI" ->
            {"create_assessment_test", "get_assessment_test",
             "list_assessment_tests", "update_assessment_test",
             "delete_assessment_test", "create_test_part",
             "get_test_part", "list_test_parts", "update_test_part",
             "delete_test_part", "create_section", "get_section",
             "update_section", "delete_section", "add_item_to_section",
             "remove_item_from_section"}
      [] c = "OrgsAPI" ->
            {"create_org", "get_org", "update_org", "delete_org",
             "list_orgs"}
      [] c = "CoursesAPI" ->
            {"create_course", "get_course", "update_course",
             "delete_course", "list_courses", "get_classes_for_course",
             "get_school_for_course", "get_subjects_for_course",
             "get_resources_for_course"}
      [] c = "ComponentsAPI" ->
            {"create_component", "get_component", "update_component",
             "delete_component", "list_components",
             "get_resources_for_component"}
      [] c = "ResourcesAPI" ->
            {"create_resource", "get_resource", "update_resource",
             "delete_resource", "list_resources",
             "get_resources_for_course", "assign_resource_to_course"}
      [] c = "AcademicSessionsAPI" ->
            {"create_academic_session", "get_academic_session",
             "update_academic_session", "delete_academic_session",
             "list_academic_sessions"}
      [] c = "ClassesAPI" ->
            {"create_class", "get_class", "update_class", "delete_class",
             "list_classes", "get_classes_for_course",
             "get_classes_for_student", "get_classes_for_teacher",
             "get_students_for_class"}
      [] c = "EnrollmentsAPI" ->
            {"create_enrollment", "get_enrollment", "update_enrollment",
             "delete_enrollment", "list_enrollments",
             "get_enrollments_for_student", "get_enrollments_for_class",
             "reset_progress"}
      [] c = "ComponentResourcesAPI" ->
            {"create_component_resource", "get_component_resource",
             "update_component_resource", "delete_component_resource",
             "list_component_resources"}
      [] c = "StudentsAPI" ->
            {"list_students", "get_student", "get_classes_for_student"}
      [] c = "CaliperAPI" ->
            {"send_event", "validate_event", "list_events",
             "get_user_xp_events"}
      [] c = "SubjectTracksAPI" ->
            {"list_subject_tracks"}
      [] OTHER -> {}

\* attributes that only some API objects have
InstanceAttributes(c) ==
    IF c \in {"AssessmentItemsAPI", "AssessmentTestAPI"} THEN {"qti_url"} ELSE {}

\* hasattr(api, name), for the names that reach __getattr__
HasAttr(c, name) == name \in ClassMethods(c) \cup InstanceAttributes(c)

\* self._api_registry[entity_name] = obj(...), for each module of __all__
RECURSIVE load_api_modules(_)
load_api_modules(all_modules) ==
    IF all_modules = <<>> THEN <<>>
    ELSE LET module_name == Head(all_modules)
         IN  <<[name |-> module_name, api |-> ModuleClass(module_name)]>>
                 \o load_api_modules(Tail(all_modules))

RegisteredNames(registry) == {registry[i].name : i \in 1..Len(registry)}

ResolvedApi(c) ==
    [kind |-> "return", exc |-> "", status |-> 200, text |-> "api",
     value |-> [api |-> c, attr |-> ""]]

ResolvedAttr(c, name) ==
    [kind |-> "return", exc |-> "", status |-> 200, text |-> "attr",
     value |-> [api |-> c, attr |-> name]]

\* for api in self._api_registry.values(): if hasattr(api, name): return
FirstWithAttr(registry, name) ==
    CHOOSE i \in 1..Len(registry) :
        /\ HasAttr(registry[i].api, name)
        /\ \A j \in 1..Len(registry) : HasAttr(registry[j].api, name) => i <= j

\* variant: only the registered names resolve
getattr_registry_only(registry, name) ==
    IF name \in RegisteredNames(registry)
    THEN LET i == CHOOSE k \in 1..Len(registry) : registry[k].name = name
         IN  ResolvedApi(registry[i].api)
    ELSE Raised("AttributeError", NoResponse, "empty", NoneBody)

getattr(registry, name) ==
    IF name \in RegisteredNames(registry)
    THEN LET i == CHOOSE k \in 1..Len(registry) : registry[k].name = name
         IN  ResolvedApi(registry[i].api)
    ELSE IF \E i \in 1..Len(registry) : HasAttr(registry[i].api, name)
    THEN ResolvedAttr(registry[FirstWithAttr(registry, name)].api, name)
    ELSE Raised("AttributeError", NoResponse, "empty", NoneBody)

\* the names looked up: modules, methods, attributes and unknown names
LookupNames ==
    ApiPackageModules
    \cup UNION { ClassMethods(ModuleClass(m)) : m \in ApiPackageModules }
    \cup {"qti_url", "list_applications", "get_line_items", "list_widgets",
          "userz"}

\* client.rostering.<name>, for a name the service object does not define
GetAttr ==
    /\ cls = "RosteringService"
    /\ \E name \in LookupNames :
        last' = [op |-> "getattr", id |-> name, events |-> <<>>,
                 outcome |-> getattr(api_registry, name), arg |-> NoneBody]
    /\ UNCHANGED <<attrs, access_token, token_expiry, clock, issued, store>>

\* TimeBackClient(...).rostering
InitRegistry ==
    /\ cls = "RosteringService"
    /\ environment \in Environments
    /\ base_url = InitBaseUrl(cls, environment)
    /\ api_path = InitApiPath(cls)
    /\ client_id \in BOOLEAN
    /\ client_secret \in BOOLEAN
    /\ api_registry = load_api_modules(ApiAll)
    /\ client = TimeBackClient_init(environment, "", Holder(cls))
    /\ threads = <<>>
    /\ grants = <<>>
    /\ access_token = None
    /\ token_expiry = None
    /\ clock = StartTime
    /\ issued = 0
    /\ last = NoCall
    /\ store = EmptyDict

NextRegistry ==
    \/ GetAttr

SpecRegistry == InitRegistry /\ [][NextRegistry]_vars

\* ========================================================================
\* PowerPathAPI
\*
\* The arguments of a call are [id, body, params]: the identifier, the
\* request body and the query parameters the caller passes.
\* ========================================================================
POWERPATH_PATH == "/powerpath"

\* the public methods that class PowerPathAPI defines
PowerPathMethods ==
    {"get_course_syllabus", "get_student_course_progress",
     "get_lesson_plan", "create_lesson_plan",
     "delete_lesson_plan", "update_lesson_plan_item",
     "get_assessment_progress", "get_next_question",
     "reset_attempt", "update_student_question_response",
     "update_student_item_response",
     "post_final_student_assessment_response",
     "create_new_attempt", "get_test_out_resource",
     "make_external_test_assignment",
     "import_external_test_assignment_results",
     "create_external_test_out"}

Request(endpoint, method, data, params) ==
    [endpoint |-> endpoint, method |-> method, data |-> data, params |-> params]

\* get_course_syllabus(course_id, filters)
get_course_syllabus(course_id, filters) ==
    Request(<<"syllabus", course_id>>, "GET", NoneBody, filters)

\* reset_attempt(student_id, lesson_id)
reset_attempt(student_id, lesson_id) ==
    Request(<<"resetAttempt">>, "POST",
            Dict([student |-> student_id, lesson |-> lesson_id]), EmptyDict)

make_external_test_assignment(student, lesson, application_name) ==
    Request(<<"makeExternalTestAssignment">>, "POST",
            Dict([student |-> student, lesson |-> lesson,
                  applicationName |-> application_name]), EmptyDict)

import_external_test_assignment_results(student, lesson) ==
    Request(<<"importExternalTestAssignmentResults">>, "GET", NoneBody,
            [student |-> student, lesson |-> lesson])

\* the methods of the test-assignment wrappers, as their tests call them
TestAssignmentWrappers ==
    {"create_test_assignment", "update_test_assignment", "get_test_assignment",
     "delete_test_assignment", "list_test_assignments",
     "list_test_assignments_admin"}

\* what is called on the PowerPathAPI object
PowerPathCalls ==
    TestAssignmentWrappers
    \cup {"get_course_syllabus", "reset_attempt", "make_external_test_assignment",
          "import_external_test_assignment_results"}

powerpath_call(name, a) ==
    CASE name = "get_course_syllabus" -> get_course_syllabus(a.id, a.params)
      [] name = "reset_attempt" -> reset_attempt(a.id, a.body.fields["lesson"])
      [] name = "make_external_test_assignment" ->
            make_external_test_assignment(a.id, a.body.fields["lesson"], "edulastic")
      [] OTHER -> import_external_test_assignment_results(a.id, a.body.fields["lesson"])

PowerPathBodies ==
    {Dict([lesson |-> "l1"]), Dict([lesson |-> "l2", name |-> "New Name"])}

PowerPathParams ==
    {EmptyDict, [student |-> "stu1", status |-> "completed"]}

PowerPathArgs ==
    [id : {"abc123", "stu1"}, body : PowerPathBodies, params : PowerPathParams]

PowerPathCallArg(a) ==
    [none |-> FALSE, env |-> <<>>, fields |-> a.body.fields, id |-> a.id,
     params |-> a.params]

\* api.<name>(...): AttributeError when the class has no such method
PowerPathCall ==
    /\ cls = "PowerPathAPI"
    /\ \E name \in PowerPathCalls, a \in PowerPathArgs,
          tr \in CrudTokenReplies \cup {NoTokenReply}, r \in Replies :
        LET q == powerpath_call(name, a)
            res == IF name \notin PowerPathMethods
                   THEN RaisedBefore(Now, "AttributeError")
                   ELSE make_request(1, cls, api_path, Now, q.method, q.endpoint,
                                     q.data, q.params, tr, r, NoReply)
        IN  /\ IF name \notin PowerPathMethods \/ ~TokenReplyRead(cls, Now)
               THEN tr = NoTokenReply ELSE tr \in CrudTokenReplies
            /\ (name \notin PowerPathMethods
                \/ (TokenReplyRead(cls, Now) /\ IsHTTPError(tr.status)))
                    => r = NoReply
            /\ Finish(name, a.id, PowerPathCallArg(a), res)
            /\ UNCHANGED <<attrs, clock, store>>

\* TimeBackClient(...).powerpath.powerpath
InitPowerPath ==
    /\ cls = "PowerPathAPI"
    /\ environment \in Environments
    /\ base_url = InitBaseUrl(cls, environment)
    /\ api_path = POWERPATH_PATH
    /\ client_id \in BOOLEAN
    /\ client_secret = client_id
    /\ access_token = None
    /\ token_expiry = None
    /\ clock = StartTime
    /\ issued = 0
    /\ last = NoCall
    /\ store = EmptyDict
    /\ api_registry = <<>>
    /\ client = TimeBackClient_init(environment, "", Holder(cls))
    /\ threads = <<>>
    /\ grants = <<>>

NextPowerPath ==
    \/ PowerPathCall

SpecPowerPath == InitPowerPath /\ [][NextPowerPath]_vars

\* ========================================================================
\* ClassesAPI.get_classes_for_teacher, against a server that holds
\* enrollments and classes, evaluates filters and answers a request that
\* has no limit with its default page
\*
\* store = [enrollments, classes, page_size]
\* ========================================================================
\* f"{field}='{value}'"
Cond(field, value) == field \o "='" \o value \o "'"

\* " OR ".join([f"sourcedId='{class_id}'" for class_id in class_ids])
RECURSIVE JoinOr(_)
JoinOr(class_ids) ==
    IF Len(class_ids) = 1 THEN <<Cond("sourcedId", class_ids[1])>>
    ELSE <<Cond("sourcedId", class_ids[1]), "OR">> \o JoinOr(Tail(class_ids))

\* [e['class']['sourcedId'] for e in enrollments.get('enrollments', [])
\*      if 'class' in e and 'sourcedId' in e['class']]
RECURSIVE ClassIdsOf(_)
ClassIdsOf(items) ==
    IF items = <<>> THEN <<>>
    ELSE (IF "class" \in DOMAIN Head(items)
             /\ "sourcedId" \in DOMAIN Head(items)["class"]
          THEN <<Head(items)["class"]["sourcedId"]>> ELSE <<>>)
         \o ClassIdsOf(Tail(items))

\* enrollments.get('enrollments', [])
GetItems(value, key) ==
    IF IsCollection(value) /\ value.key = key THEN value.items ELSE <<>>

NoArgs(filter_expr) ==
    [limit |-> NoneInt, offset |-> NoneInt, sort |-> NoneStr,
     order_by |-> NoneStr, filter_expr |-> filter_expr]

\* ---- the server ---------------------------------------------------------
FilterFields == {"sourcedId", "status", "role", "user.sourcedId"}

HasField(rec, k) ==
    IF k = "user.sourcedId"
    THEN "user" \in DOMAIN rec
    ELSE k \in DOMAIN rec

FieldValue(rec, k) ==
    IF k = "user.sourcedId" THEN rec["user"]["sourcedId"] ELSE rec[k]

\* one condition field='value'
Holds(rec, w) ==
    \E k \in FilterFields : HasField(rec, k) /\ w = Cond(k, FieldValue(rec, k))

EvalConj(rec, ws) ==
    \A i \in 1..Len(ws) : ws[i] = "AND" \/ Holds(rec, ws[i])

\* AND binds tighter than OR
EvalDisj(rec, ws) ==
    \E b \in 1..Len(ws), e \in 1..Len(ws) :
        /\ b <= e
        /\ (b = 1 \/ ws[b - 1] = "OR")
        /\ (e = Len(ws) \/ ws[e + 1] = "OR")
        /\ \A i \in b..e : ws[i] # "OR"
        /\ EvalConj(rec, SubSeq(ws, b, e))

Eval(rec, ws) ==
    IF ws = <<>> THEN TRUE
    ELSE IF Head(ws) = "("
    THEN LET j == CHOOSE j \in 1..Len(ws) : ws[j] = ")"
         IN  /\ EvalDisj(rec, SubSeq(ws, 2, j - 1))
             /\ (j = Len(ws) \/ EvalDisj(rec, SubSeq(ws, j + 2, Len(ws))))
    ELSE EvalDisj(rec, ws)

RECURSIVE Matching(_, _)
Matching(items, ws) ==
    IF items = <<>> THEN <<>>
    ELSE (IF Eval(Head(items), ws) THEN <<Head(items)>> ELSE <<>>)
         \o Matching(Tail(items), ws)

FirstN(items, n) == SubSeq(items, 1, IF Len(items) < n THEN Len(items) ELSE n)

\* GET /enrollments or /classes: the matching items, one page of them
ServerList(s, key, params) ==
    LET ws == IF "filter" \in DOMAIN params THEN params["filter"] ELSE <<>>
        n == IF "limit" \in DOMAIN params THEN params["limit"] ELSE s.page_size
    IN  [status |-> 200, text |-> "json",
         json |-> Collection(key, FirstN(Matching(s[key], ws), n))]

ServerError == [status |-> 500, text |-> "json", json |-> SomeJson]

\* ---- the call -----------------------------------------------------------
get_classes_for_teacher(teacher_id, filter_expr, tr, ok1, ok2) ==
    LET enroll_filter == And(<<Cond("user.sourcedId", teacher_id)>>,
                             <<Cond("role", "teacher")>>)
        p1 == Put(EmptyDict, "filter", enroll_filter)
        r1 == IF ok1 THEN ServerList(store, "enrollments", p1) ELSE ServerError
        res1 == make_request(1, cls, api_path, Now, "GET", <<"enrollments">>,
                             NoneBody, p1, tr, r1, NoReply)
        class_ids == ClassIdsOf(GetItems(res1.outcome.value, "enrollments"))
        class_id_filter == JoinOr(class_ids)
        combined_filter == IF filter_expr # NoFilter
                           THEN <<"(">> \o class_id_filter \o <<")">>
                                \o <<"AND">> \o filter_expr
                           ELSE class_id_filter
        q2 == list_classes(NoArgs(combined_filter))
        r2 == IF ok2 THEN ServerList(store, "classes", q2.params) ELSE ServerError
        res2 == make_request(2, cls, api_path, res1.st, "GET", q2.endpoint,
                             NoneBody, q2.params, tr, r2, NoReply)
    IN  IF res1.outcome.kind = "raise" THEN res1
        ELSE IF class_ids = <<>>
        THEN [st |-> res1.st, events |-> res1.events,
              outcome |-> Returned(200, "json", Collection("classes", <<>>))]
        ELSE [st |-> res2.st, events |-> res1.events \o res2.events,
              outcome |-> res2.outcome]

TeacherIds == {"t1", "t2"}

ClassIds == {"c1", "c2", "c3"}

ClassOrder == <<"c1", "c2", "c3">>

TeacherFilters == {NoFilter, StatusActive}

GetClassesForTeacher ==
    /\ cls = "ClassesAPI"
    /\ \E teacher_id \in TeacherIds, filter_expr \in TeacherFilters,
          tr \in CrudTokenReplies \cup {NoTokenReply}, ok1 \in BOOLEAN,
          ok2 \in BOOLEAN :
        LET res == get_classes_for_teacher(teacher_id, filter_expr, tr, ok1, ok2)
        IN  /\ IF ~TokenReplyRead(cls, Now)
               THEN tr = NoTokenReply ELSE tr \in CrudTokenReplies
            \* a reply that is never read is fixed
            /\ (Len(res.events) = 0
                \/ res.events[Len(res.events)].kind = "token") => (ok1 /\ ok2)
            /\ ~ok1 => ok2
            /\ (ok1 /\ Cardinality({i \in 1..Len(res.events) :
                                        res.events[i].kind = "api"}) < 2) => ok2
            /\ Finish("get_classes_for_teacher", teacher_id,
                      [teacher_id |-> teacher_id, filter_expr |-> filter_expr],
                      res)
            /\ UNCHANGED <<attrs, clock, store>>

Enrollment(user, role, class) ==
    [sourcedId |-> "e-" \o user \o "-" \o class, role |-> role,
     user |-> [sourcedId |-> user], class |-> [sourcedId |-> class]]

Class(id, status) == [sourcedId |-> id, status |-> status, title |-> "A"]

ServerClasses ==
    <<Class("c1", "active"), Class("c2", "active"), Class("c3", "tobedeleted")>>

\* the enrollments of t1, one per class at most, and t2 teaching c1
RECURSIVE EnrollmentsOf(_, _)
EnrollmentsOf(roles, order) ==
    IF order = <<>> THEN <<Enrollment("t2", "teacher", "c1")>>
    ELSE (IF roles[Head(order)] = "none" THEN <<>>
          ELSE <<Enrollment("t1", roles[Head(order)], Head(order))>>)
         \o EnrollmentsOf(roles, Tail(order))

\* the server's default page: smaller than what it holds, or larger
ServerPageSizes == {2, 100}

InitTeacher ==
    /\ cls = "ClassesAPI"
    /\ environment \in Environments
    /\ base_url = InitBaseUrl(cls, environment)
    /\ api_path = InitApiPath(cls)
    /\ client_id \in BOOLEAN
    /\ client_secret = client_id
    /\ access_token = None
    /\ token_expiry = None
    /\ clock = StartTime
    /\ issued = 0
    /\ last = NoCall
    /\ \E roles \in [ClassIds -> {"teacher", "student", "none"}],
          n \in ServerPageSizes :
        store = [enrollments |-> EnrollmentsOf(roles, ClassOrder),
                 classes |-> ServerClasses, page_size |-> n]
    /\ api_registry = <<>>
    /\ client = TimeBackClient_init(environment, "", Holder(cls))
    /\ threads = <<>>
    /\ grants = <<>>

NextTeacher ==
    \/ GetClassesForTeacher

SpecTeacher == InitTeacher /\ [][NextTeacher]_vars

\* ========================================================================
\* The model helpers Course.create and AcademicSession.create
\* ========================================================================
ModelOf(c) == IF c = "CoursesAPI" THEN "Course" ELSE "AcademicSession"

\* the parameters of the helper, other than **kwargs
HelperParameters(c) ==
    IF c = "CoursesAPI" THEN {"title", "courseCode"}
    ELSE {"title", "type", "startDate", "endDate", "schoolYear"}

\* the keywords the helper passes itself:
\*   cls(sourcedId=None, title=title, ..., org=None, **kwargs)
HelperKeywords(c, given) ==
    [k \in DOMAIN given \cup {"sourcedId", "org"} |->
        IF k \in DOMAIN given THEN given[k] ELSE ""]

\* Course.create(title, courseCode, **kwargs) and
\* AcademicSession.create(title, type, startDate, endDate, schoolYear,
\* **kwargs); a keyword given twice is a TypeError of the call
Model_create(c, given, kwargs) ==
    LET own == HelperKeywords(c, given)
    IN  IF DOMAIN own \cap DOMAIN kwargs # {}
        THEN [exc |-> "TypeError", fields |-> EmptyDict]
        ELSE Construct(c, [k \in DOMAIN own \cup DOMAIN kwargs |->
                            IF k \in DOMAIN own THEN own[k] ELSE kwargs[k]])

HelperClasses == {"CoursesAPI", "AcademicSessionsAPI"}

\* the arguments: those of a valid entity, one of them possibly empty
HelperGiven(c) ==
    LET base == [k \in HelperParameters(c) |-> BaseFields(c)[k]]
    IN  {base} \cup {[base EXCEPT ![k] = ""] : k \in DOMAIN base}

KwargValues ==
    [org |-> {"id2", "nosid"}, status |-> {"active", "tobedeleted"},
     grades |-> {"9"}, parent |-> {"id2"}]

HelperKwargs ==
    UNION { {f \in [S -> {"id2", "nosid", "active", "tobedeleted", "9"}] :
                \A k \in S : f[k] \in KwargValues[k]} :
            S \in SUBSET {"org", "status", "grades", "parent"} }

HelperArg(given, kwargs) ==
    [none |-> FALSE, env |-> <<>>, fields |-> given, kwargs |-> kwargs]

ModelCreate ==
    /\ cls \in HelperClasses
    /\ \E given \in HelperGiven(cls), kwargs \in HelperKwargs :
        LET made == Model_create(cls, given, kwargs)
            res == IF made.exc # "" THEN RaisedBefore(Now, made.exc)
                   ELSE [st |-> Now, events |-> <<>>,
                         outcome |-> Returned(NoResponse, "empty",
                                              Dict(made.fields))]
        IN  /\ Finish("model_create", ModelOf(cls), HelperArg(given, kwargs), res)
            /\ UNCHANGED <<attrs, clock, store>>

InitModels ==
    /\ cls \in HelperClasses
    /\ environment \in Environments
    /\ base_url = InitBaseUrl(cls, environment)
    /\ api_path = InitApiPath(cls)
    /\ client_id = FALSE
    /\ client_secret = FALSE
    /\ access_token = None
    /\ token_expiry = None
    /\ clock = StartTime
    /\ issued = 0
    /\ last = NoCall
    /\ store = EmptyDict
    /\ api_registry = <<>>
    /\ client = TimeBackClient_init(environment, "", Holder(cls))
    /\ threads = <<>>
    /\ grants = <<>>

NextModels ==
    \/ ModelCreate

SpecModels == InitModels /\ [][NextModels]_vars

\* ========================================================================
\* TimeBackClient: the services it builds and the API objects they register
\* ========================================================================
\* services = [self.rostering, self.gradebook, self.resources, self.qti,
\*             self.powerpath]
ClientServices == {"rostering", "gradebook", "resources", "qti", "powerpath"}

ServiceClass(holder) ==
    CASE holder = "rostering" -> "RosteringService"
      [] holder = "gradebook" -> "GradebookService"
      [] holder = "resources" -> "ResourcesService"
      [] holder = "qti" -> "QTIService"
      [] holder = "powerpath" -> "PowerPathService"

ServiceClasses == {ServiceClass(h) : h \in ClientServices}

\* _load_api_modules of each service: what its registry holds
ServiceRegistry(holder) ==
    CASE holder = "rostering" -> load_api_modules(ApiAll)
      [] holder = "gradebook" ->
            <<[name |-> "assessment_results", api |-> "AssessmentResultsAPI"]>>
      [] holder = "resources" ->
            <<[name |-> "resources", api |-> "ResourcesAPI"]>>
      [] holder = "qti" ->
            <<[name |-> "assessment_items", api |-> "AssessmentItemsAPI"],
              [name |-> "stimuli", api |-> "StimulusAPI"],
              [name |-> "assessment_tests", api |-> "AssessmentTestAPI"]>>
      [] holder = "powerpath" ->
            <<[name |-> "powerpath", api |-> "PowerPathAPI"]>>

\* the service objects and the instances in their registries
ClientObjects ==
    { [holder |-> h, cls |-> ServiceClass(h)] : h \in ClientServices }
    \cup UNION { { [holder |-> h, cls |-> ServiceRegistry(h)[i].api] :
                     i \in 1..Len(ServiceRegistry(h)) } : h \in ClientServices }

\* self.api_path after the constructor of the class
ClientApiPath(c) ==
    CASE c \in {"GradebookService", "AssessmentResultsAPI"} -> GRADEBOOK_PATH
      [] c = "ResourcesService" -> RESOURCES_PATH
      [] c = "QTIService" -> QTI_PATH
      [] c \in {"PowerPathService", "PowerPathAPI"} -> POWERPATH_PATH
      [] c = "SubjectTracksAPI" -> EDUBRIDGE_PATH
      [] c = "CaliperAPI" -> ""
      [] OTHER -> InitApiPath(c)

\* the URL the object is built with: self.api_url, or self.qti_url for the
\* instances of the QTI registry
ClientBaseUrl(holder, c, env) ==
    IF holder = "qti" /\ c # "QTIService"
    THEN (IF env = "staging" THEN DEFAULT_QTI_STAGING_URL
                             ELSE DEFAULT_QTI_PRODUCTION_URL)
    ELSE (IF env = "staging" THEN DEFAULT_STAGING_URL
                             ELSE DEFAULT_PRODUCTION_URL)

\* variant: the environment is passed to the services only
PassedEnvironment_services_only(c, effective_env) ==
    IF c \in ServiceClasses THEN effective_env ELSE "production"

\* service.environment = self.environment, and
\* api_instance.environment = self.environment for each registered instance
\* (each has the attribute: TimeBackService.__init__ sets it)
PassedEnvironment(c, effective_env) == effective_env

\* the values of the environment argument and of TIMEBACK_ENVIRONMENT
EnvironmentArguments == {"", "staging", "STAGING", "production", "dev"}
EnvironmentVariables == {"", "staging", "Staging", "production"}

\* TimeBackClient(environment=..., client_id=..., client_secret=...) and one
\* of the objects it holds
InitClient ==
    \E o \in ClientObjects, a \in EnvironmentArguments,
       v \in EnvironmentVariables :
        /\ client = TimeBackClient_init(a, v, o.holder)
        /\ threads = <<>>
        /\ grants = <<>>
        /\ cls = o.cls
        /\ environment = PassedEnvironment(o.cls, client.environment)
        /\ base_url = ClientBaseUrl(o.holder, o.cls, client.environment)
        /\ api_path = ClientApiPath(o.cls)
        /\ client_id \in BOOLEAN
        /\ client_secret = client_id
        /\ api_registry = IF o.cls \in ServiceClasses
                          THEN ServiceRegistry(o.holder) ELSE <<>>
        /\ access_token = None
        /\ token_expiry = None
        /\ clock = StartTime
        /\ issued = 0
        /\ last = NoCall
        /\ store = EmptyDict

\* the replies of the server to a request of the object
ClientReplies ==
    { r \in Replies : r.text = "json" /\ r.status \in {200, 404} }
    \cup {NoReply}

\* self._make_request("/things/id1") by the object
ClientCall ==
    \E tr \in TokenReplies, r1 \in ClientReplies, r2 \in ClientReplies :
        /\ RepliesRead(cls, Now, tr, r1, r2)
        /\ Finish("request", "id1", NoneBody,
                  make_request(1, cls, api_path, Now, "GET",
                               <<"things", "id1">>, NoneBody, EmptyDict,
                               tr, r1, r2))
        /\ UNCHANGED <<attrs, clock, store>>

NextClient ==
    \/ Tick
    \/ ClientCall

SpecClient == InitClient /\ [][NextClient]_vars

\* ========================================================================
\* Concurrent calls on one service instance
\*
\* Each thread runs _make_request: it calls _get_auth_token and then sends
\* its request. The instance's _access_token and _token_expiry are shared;
\* there is no lock, so the threads interleave between any two statements.
\* A thread's record holds its position (pc), the token_data it has parsed
\* from the identity provider's reply, and the token it was returned.
\* ========================================================================
Threads == {1, 2}

NoTokenData == [access_token |-> None, expires_in |-> None]

IdleThread ==
    [pc |-> "idle", token_data |-> NoTokenData, token |-> None,
     cached |-> FALSE]

\* what the last request of a thread carried, and when it was sent
Sent(t, token, cached) ==
    [op |-> "send", id |-> t, events |-> <<>>,
     outcome |-> [kind |-> "return", exc |-> "", status |-> 200,
                  text |-> "", value |-> NoneBody],
     arg |-> [auth |-> token, now |-> clock, cached |-> cached]]

\* raise_for_status() of the token reply leaves the call
Refused(t, status) ==
    [op |-> "send", id |-> t, events |-> <<>>,
     outcome |-> [kind |-> "raise", exc |-> "HTTPError", status |-> status,
                  text |-> "", value |-> NoneBody],
     arg |-> [auth |-> None, now |-> clock, cached |-> FALSE]]

\* token = self._get_auth_token(): the thread enters the call
BeginRequest(t) ==
    /\ threads[t].pc = "idle"
    /\ threads' = [threads EXCEPT ![t] = [IdleThread EXCEPT !.pc = "check_token"]]
    /\ UNCHANGED <<cls, base_url, api_path, environment, client_id,
                   client_secret, api_registry, client, grants,
                   access_token, token_expiry, clock, issued, last, store>>

\* if self._access_token and ...
CheckToken(t) ==
    /\ threads[t].pc = "check_token"
    /\ threads' = [threads EXCEPT ![t].pc =
                     IF access_token # None THEN "check_expiry"
                                            ELSE "credentials"]
    /\ UNCHANGED <<cls, base_url, api_path, environment, client_id,
                   client_secret, api_registry, client, grants,
                   access_token, token_expiry, clock, issued, last, store>>

\* ... and self._token_expiry and ...
CheckExpiry(t) ==
    /\ threads[t].pc = "check_expiry"
    /\ threads' = [threads EXCEPT ![t].pc =
                     IF token_expiry # None THEN "compare"
                                            ELSE "credentials"]
    /\ UNCHANGED <<cls, base_url, api_path, environment, client_id,
                   client_secret, api_registry, client, grants,
                   access_token, token_expiry, clock, issued, last, store>>

\* ... and time.time() < self._token_expiry:
CompareExpiry(t) ==
    /\ threads[t].pc = "compare"
    /\ threads' = [threads EXCEPT ![t].pc =
                     IF clock < token_expiry THEN "return_cached"
                                             ELSE "credentials"]
    /\ UNCHANGED <<cls, base_url, api_path, environment, client_id,
                   client_secret, api_registry, client, grants,
                   access_token, token_expiry, clock, issued, last, store>>

\* return self._access_token, of the cached branch
ReturnCached(t) ==
    /\ threads[t].pc = "return_cached"
    /\ threads' = [threads EXCEPT ![t].pc = "send",
                                  ![t].token = access_token,
                                  ![t].cached = TRUE]
    /\ UNCHANGED <<cls, base_url, api_path, environment, client_id,
                   client_secret, api_registry, client, grants,
                   access_token, token_expiry, clock, issued, last, store>>

\* if not (self.client_id and self.client_secret): return None
CheckCredentials(t) ==
    /\ threads[t].pc = "credentials"
    /\ threads' = [threads EXCEPT ![t].pc =
                     IF HasCredentials THEN "post" ELSE "send"]
    /\ UNCHANGED <<cls, base_url, api_path, environment, client_id,
                   client_secret, api_registry, client, grants,
                   access_token, token_expiry, clock, issued, last, store>>

\* response = requests.post(...); response.raise_for_status();
\* token_data = response.json()
PostToken(t) ==
    /\ threads[t].pc = "post"
    /\ \E tr \in TokenReplies :
        IF IsHTTPError(tr.status)
        THEN /\ threads' = [threads EXCEPT ![t] = IdleThread]
             /\ last' = Refused(t, tr.status)
             /\ UNCHANGED <<issued, grants>>
        ELSE /\ issued < MaxIssued
             /\ issued' = issued + 1
             /\ grants' = Append(grants, [issued_at |-> clock,
                                          expires_in |-> tr.expires_in])
             /\ threads' = [threads EXCEPT
                              ![t].pc = "set_token",
                              ![t].token_data =
                                  [access_token |-> issued + 1,
                                   expires_in |-> tr.expires_in]]
             /\ UNCHANGED last
    /\ UNCHANGED <<cls, base_url, api_path, environment, client_id,
                   client_secret, api_registry, client,
                   access_token, token_expiry, clock, store>>

\* self._access_token = token_data["access_token"]
SetToken(t) ==
    /\ threads[t].pc = "set_token"
    /\ access_token' = threads[t].token_data.access_token
    /\ threads' = [threads EXCEPT ![t].pc = "set_expiry"]
    /\ UNCHANGED <<cls, base_url, api_path, environment, client_id,
                   client_secret, api_registry, client, grants,
                   token_expiry, clock, issued, last, store>>

\* self._token_expiry = time.time() + token_data["expires_in"] - 60
SetExpiry(t) ==
    /\ threads[t].pc = "set_expiry"
    /\ token_expiry' = NewExpiry(clock, threads[t].token_data.expires_in)
    /\ threads' = [threads EXCEPT ![t].pc = "return_token"]
    /\ UNCHANGED <<cls, base_url, api_path, environment, client_id,
                   client_secret, api_registry, client, grants,
                   access_token, clock, issued, last, store>>

\* return self._access_token, after the refresh
ReturnToken(t) ==
    /\ threads[t].pc = "return_token"
    /\ threads' = [threads EXCEPT ![t].pc = "send",
                                  ![t].token = access_token]
    /\ UNCHANGED <<cls, base_url, api_path, environment, client_id,
                   client_secret, api_registry, client, grants,
                   access_token, token_expiry, clock, issued, last, store>>

\* if token: headers["Authorization"] = ...; requests.request(...)
SendRequest(t) ==
    /\ threads[t].pc = "send"
    /\ last' = Sent(t, threads[t].token, threads[t].cached)
    /\ threads' = [threads EXCEPT ![t] = IdleThread]
    /\ UNCHANGED <<cls, base_url, api_path, environment, client_id,
                   client_secret, api_registry, client, grants,
                   access_token, token_expiry, clock, issued, store>>

\* time passes, but not between the token reply of a thread and its two
\* assignments: the reply is taken to arrive when time.time() is read
ThreadTick ==
    /\ \A t \in Threads : threads[t].pc \notin {"set_token", "set_expiry"}
    /\ Tick

InitThreads ==
    /\ cls = "UsersAPI"
    /\ environment \in Environments
    /\ base_url = InitBaseUrl(cls, environment)
    /\ api_path = InitApiPath(cls)
    /\ client_id \in BOOLEAN
    /\ client_secret = client_id
    /\ api_registry = <<>>
    /\ client = TimeBackClient_init(environment, "", Holder(cls))
    /\ threads = [t \in Threads |-> IdleThread]
    /\ grants = <<>>
    /\ access_token = None
    /\ token_expiry = None
    /\ clock = StartTime
    /\ issued = 0
    /\ last = NoCall
    /\ store = EmptyDict

NextThreads ==
    \/ ThreadTick
    \/ \E t \in Threads : BeginRequest(t)
    \/ \E t \in Threads : CheckToken(t)
    \/ \E t \in Threads : CheckExpiry(t)
    \/ \E t \in Threads : CompareExpiry(t)
    \/ \E t \in Threads : ReturnCached(t)
    \/ \E t \in Threads : CheckCredentials(t)
    \/ \E t \in Threads : PostToken(t)
    \/ \E t \in Threads : SetToken(t)
    \/ \E t \in Threads : SetExpiry(t)
    \/ \E t \in Threads : ReturnToken(t)
    \/ \E t \in Threads : SendRequest(t)

SpecThreads == InitThreads /\ [][NextThreads]_vars

\* ========================================================================
\* Properties
\* ========================================================================

\* C1: once a token is cached, a request made before the recorded expiry
\* (time of issue + expires_in - 60) reuses it and sends no token request;
\* a request made at or after the expiry sends exactly one token request
\* and, when a token is granted, uses the new token, which is cached with
\* expiry = time of issue + expires_in - 60.
C1_TokenCaching ==
    LET ev == last.events
        TokensOf(r) == {j \in 1..Len(ev) : ev[j].kind = "token" /\ ev[j].req = r}
        Granted == {j \in 1..Len(ev) : ev[j].kind = "token" /\ ev[j].granted # None}
    IN  /\ \A i \in 1..Len(ev) :
            LET e == ev[i]
                cached == e.pre.tok # None
            IN  /\ (cached /\ e.pre.now < e.pre.exp) =>
                    /\ e.kind = "api"
                    /\ e.auth = e.pre.tok
                    /\ TokensOf(e.req) = {}
                /\ (cached /\ e.pre.now >= e.pre.exp) =>
                    /\ Cardinality(TokensOf(e.req)) = 1
                    /\ e.kind = "api" =>
                        \E j \in TokensOf(e.req) :
                            /\ j < i
                            /\ ev[j].granted # None
                            /\ ev[j].granted # e.pre.tok
                            /\ e.auth = ev[j].granted
        /\ Granted # {} =>
            LET t == ev[CHOOSE j \in Granted : \A k \in Granted : k <= j]
            IN  /\ access_token = t.granted
                /\ token_expiry = t.pre.now + t.expires_in - 60

\* a call in which one request reused the cached token and a later one,
\* made at the expiry, fetched and used a new token
C1_Witness ==
    \E i, j \in 1..Len(last.events) :
        LET e == last.events[i]
            f == last.events[j]
        IN  /\ e.kind = "api" /\ f.kind = "api"
            /\ e.pre.tok # None /\ e.pre.now < e.pre.exp /\ e.auth = e.pre.tok
            /\ f.pre.tok # None /\ f.pre.now >= f.pre.exp /\ f.auth # f.pre.tok
            /\ f.auth # None

\* C2: a QTI request of a staging instance that the staging endpoint
\* answers with 404 is sent again to production QTI with the same method,
\* endpoint, body and parameters, and the call's outcome is that of the
\* production request.
C2_StagingFallback ==
    LET ev == last.events
    IN  \A i \in 1..Len(ev) :
            (/\ cls \in QTIClasses
             /\ environment = "staging"
             /\ ev[i].kind = "api"
             /\ ev[i].host = DEFAULT_QTI_STAGING_URL
             /\ ev[i].status = 404) =>
                /\ i < Len(ev)
                /\ ev[i + 1].kind = "api"
                /\ ev[i + 1].host = DEFAULT_QTI_PRODUCTION_URL
                /\ ev[i + 1].method = ev[i].method
                /\ ev[i + 1].endpoint = ev[i].endpoint
                /\ ev[i + 1].body = ev[i].body
                /\ ev[i + 1].params = ev[i].params
                /\ last.outcome.status = ev[i + 1].status

\* C3: within a call, a request is sent a second time only as the QTI
\* fallback: directly after a 404, in the staging environment, to
\* production QTI, and nothing is sent after it; its failure is raised.
C3_SingleFallback ==
    LET ev == last.events
        Same(a, b) == /\ a.method = b.method /\ a.endpoint = b.endpoint
                      /\ a.body = b.body /\ a.params = b.params
    IN  \A i, j \in 1..Len(ev) :
            (i < j /\ ev[i].kind = "api" /\ ev[j].kind = "api"
             /\ Same(ev[i], ev[j])) =>
                /\ j = i + 1
                /\ j = Len(ev)
                /\ cls \in QTIClasses
                /\ environment = "staging"
                /\ ev[i].status = 404
                /\ ev[j].host = DEFAULT_QTI_PRODUCTION_URL
                /\ (ev[j].status >= 400 \/ ev[j].status = NoResponse) =>
                    /\ last.outcome.kind = "raise"
                    /\ last.outcome.status = ev[j].status

\* the fallback request was itself answered 404 and the call raised
C3_Witness ==
    /\ Len(last.events) >= 2
    /\ last.events[Len(last.events)].kind = "api"
    /\ last.events[Len(last.events) - 1].kind = "api"
    /\ last.events[Len(last.events) - 1].status = 404
    /\ last.events[Len(last.events)].status = 404
    /\ last.events[Len(last.events)].host = DEFAULT_QTI_PRODUCTION_URL
    /\ last.outcome.kind = "raise"

\* C4 as stated: a final response whose status is not 2xx makes the call
\* raise an exception that carries the status and the body.
C4_NonSuccessRaises ==
    LET ev == last.events
        final == ev[Len(ev)]
    IN  (/\ ev # <<>>
         /\ final.kind = "api"
         /\ final.status # NoResponse
         /\ ~(final.status >= 200 /\ final.status < 300)
         /\ ~(last.op = "delete_user" /\ final.status = 404)) =>
            /\ last.outcome.kind = "raise"
            /\ last.outcome.status = final.status
            /\ last.outcome.text = final.text
            /\ last.outcome.value = final.json

\* C4 amended: a final response with a 4xx or 5xx status makes the call
\* raise an exception that carries the status and the body.
C4_ErrorStatusRaises ==
    LET ev == last.events
        final == ev[Len(ev)]
    IN  (/\ ev # <<>>
         /\ final.kind = "api"
         /\ final.status >= 400 /\ final.status < 600
         /\ ~(last.op = "delete_user" /\ final.status = 404)) =>
            /\ last.outcome.kind = "raise"
            /\ last.outcome.exc = "HTTPError"
            /\ last.outcome.status = final.status
            /\ last.outcome.text = final.text
            /\ last.outcome.value = final.json

\* a call whose final response was a 404 and which raised it
C4_Witness ==
    /\ last.events # <<>>
    /\ last.events[Len(last.events)].kind = "api"
    /\ last.events[Len(last.events)].status = 404
    /\ last.op = "simple"
    /\ last.outcome.kind = "raise"
    /\ last.outcome.status = 404

\* C6 as stated: api_path (like base_url and environment) has the value the
\* constructor gave it before, during and after every call, "during" being
\* the value the call's request was built from.
C6_AttributesNeverChange ==
    /\ api_path = InitApiPath(cls)
    /\ base_url = InitBaseUrl(cls, environment)
    /\ \A i \in 1..Len(last.events) :
        last.events[i].kind = "api" =>
            last.events[i].path = UrlPath(cls, InitApiPath(cls))

\* C6 amended: no call leaves an attribute other than the token cache
\* changed, and the only request built from another api_path is that of
\* reset_progress, built from /edubridge.
C6_AttributesRestored ==
    [][/\ cls' = cls /\ base_url' = base_url /\ api_path' = api_path
       /\ environment' = environment
       /\ client_id' = client_id /\ client_secret' = client_secret
       /\ \A i \in 1..Len(last'.events) :
            (last'.events[i].kind = "api"
             /\ last'.events[i].path # UrlPath(cls, api_path)) =>
                /\ last'.op = "reset_progress"
                /\ last'.events[i].path = EDUBRIDGE_PATH]_vars

\* reset_progress sent its request to /edubridge and api_path is back
C6_Witness ==
    /\ last.op = "reset_progress"
    /\ \E i \in 1..Len(last.events) :
        /\ last.events[i].kind = "api"
        /\ last.events[i].path = EDUBRIDGE_PATH
    /\ api_path = ROSTERING_PATH

\* C9: delete_user returns the "not found or already deleted" message when
\* its fetch or its status update is answered 404, and raises every other
\* HTTP error.
C9_NotFoundIsSuccess ==
    LET ev == last.events
        final == ev[Len(ev)]
    IN  (last.op = "delete_user" /\ ev # <<>> /\ final.kind = "api") =>
            /\ final.status = 404 => last.outcome = NotFoundMessage
            /\ (final.status >= 400 /\ final.status # 404) =>
                /\ last.outcome.kind = "raise"
                /\ last.outcome.status = final.status

DocumentedRequired(c) ==
    CASE c = "CoursesAPI" -> {"title", "courseCode", "status", "org"}
      [] c = "ComponentsAPI" -> {"title", "status", "course", "sortOrder"}
      [] c = "ComponentResourcesAPI" ->
            {"sourcedId", "status", "courseComponent", "resource", "title"}
      [] c = "ResourcesAPI" -> {"title", "vendorResourceId"}
      [] c = "ClassesAPI" -> {"title", "course", "org", "terms"}
      [] c = "EnrollmentsAPI" -> {"role", "user", "class"}
      [] c = "OrgsAPI" -> {"name", "type"}
      [] c = "AcademicSessionsAPI" ->
            {"title", "type", "startDate", "endDate", "schoolYear", "org"}
      [] OTHER -> {}

\* those of them the docstring gives a default for: "(defaults to 'active')"
DocumentedDefault(c) ==
    IF c \in {"CoursesAPI", "ComponentsAPI"} THEN {"status"} ELSE {}

C7_RoundTrip ==
    /\ (last.op \in {"create", "update"} /\ last.outcome.kind = "return") =>
        LET id == IF last.op = "create"
                  THEN last.outcome.value.fields["allocatedSourcedId"]
                  ELSE last.id
            got == ServerGet(cls, store, id)
        IN  /\ got.status = 200
            /\ got.json.env = <<EnvelopeKey(cls)>>
            /\ \A k \in DOMAIN last.arg.fields \ {"sourcedId"} :
                last.arg.fields[k] # "" =>
                    /\ k \in DOMAIN got.json.fields
                    /\ got.json.fields[k] = last.arg.fields[k]
    /\ (last.op = "get" /\ last.outcome.kind = "return") =>
        last.outcome.value = ServerGet(cls, store, last.id).json

\* C8: the body of every create or update request is the entity's fields
\* wrapped exactly once under the envelope key, for a model instance, a
\* wrapped dict and an unwrapped dict alike.
C8_WrappedOnce ==
    last.op \in {"create", "update"} =>
        \A i \in 1..Len(last.events) :
            last.events[i].kind = "api" =>
                /\ last.events[i].body.env = <<EnvelopeKey(cls)>>
                /\ \A k \in DOMAIN last.arg.fields \ {"sourcedId"} :
                    last.arg.fields[k] # "" =>
                        /\ k \in DOMAIN last.events[i].body.fields
                        /\ last.events[i].body.fields[k] = last.arg.fields[k]

\* ------------------------------------------------------------------------
\* List operations
\* ------------------------------------------------------------------------
ListOpNames == UNION { ListOps(c) : c \in ListClasses }

\* the request of a list call that reached the server, and what came back
ListRequest == last.events[Len(last.events)]

ListReturned ==
    /\ last.op \in ListOpNames
    /\ last.outcome.kind = "return"
    /\ IsCollection(last.outcome.value)

\* the value of a field of an item, by its (dotted) name
ItemField(x, field) ==
    IF field = "metadata.grade" THEN x.metadata.grade ELSE x[field]

\* position of a value in the case-insensitive order
FoldedRank(v) == Rank(Lower(v))

\* C11: a list call given a sort field and an order returns exactly the
\* items the server returned, ordered case-insensitively by that field,
\* ascending for 'asc' and descending for 'desc', whatever order the server
\* used.
C11_SortedCaseInsensitively ==
    (/\ ListReturned
     /\ last.arg.args.sort # NoneStr
     /\ last.arg.args.order_by # NoneStr) =>
        LET got == last.outcome.value.items
            sent == ListRequest.json.items
            field == last.arg.args.sort
            desc == Lower(last.arg.args.order_by) = "desc"
        IN  /\ Len(got) = Len(sent)
            /\ {got[i] : i \in 1..Len(got)} = {sent[i] : i \in 1..Len(sent)}
            /\ \A i, j \in 1..Len(got) :
                i < j =>
                    IF desc
                    THEN FoldedRank(ItemField(got[i], field))
                            >= FoldedRank(ItemField(got[j], field))
                    ELSE FoldedRank(ItemField(got[i], field))
                            <= FoldedRank(ItemField(got[j], field))

\* the list call sent its request to the server
ListSent ==
    /\ last.op \in ListOpNames
    /\ last.events # <<>>
    /\ ListRequest.kind = "api"

\* C12: every list operation passes on limit, offset, filter and sort: each
\* of them that the caller supplies, a value of 0 included, reaches the
\* server as the query parameter of that name with the supplied value.
C12_ParametersReachServer ==
    ListSent =>
        LET a == last.arg.args
            sent == ListRequest.params
        IN  /\ a.limit # NoneInt =>
                ("limit" \in DOMAIN sent /\ sent["limit"] = a.limit)
            /\ a.offset # NoneInt =>
                ("offset" \in DOMAIN sent /\ sent["offset"] = a.offset)
            /\ a.filter_expr # NoFilter =>
                ("filter" \in DOMAIN sent /\ sent["filter"] = a.filter_expr)
            /\ a.sort # NoneStr =>
                ("sort" \in DOMAIN sent /\ sent["sort"] = a.sort)

\* the filter has a condition on the status of the user
HasStatusCondition(f) ==
    \E i \in 1..Len(f) :
        f[i] \in {"status='active'", "status='tobedeleted'", "status!='active'"}

\* C13: list_users filters for status='active' unless another status is
\* given: it sends status='active' alone when the caller gives no filter,
\* the caller's filter AND status='active' when that filter has no
\* condition on the status, and the caller's filter unchanged when it has.
C13_ActiveUnlessStatusGiven ==
    (ListSent /\ last.op = "list_users") =>
        LET f == last.arg.args.filter_expr
            sent == ListRequest.params
        IN  /\ "filter" \in DOMAIN sent
            /\ sent["filter"] =
                IF f = NoFilter THEN <<"status='active'">>
                ELSE IF ~HasStatusCondition(f)
                THEN f \o <<"AND", "status='active'">>
                ELSE f

\* ------------------------------------------------------------------------
\* The registry of RosteringService
\* ------------------------------------------------------------------------
\* C14: every class of the package timeback_client.api that inherits
\* TimeBackService is registered by RosteringService at construction under
\* the name of its module, and client.rostering.<module name> is that API
\* object.
C14_AllApiClassesRegistered ==
    (last.op = "getattr" /\ last.id \in ApiPackageModules) =>
        /\ \E i \in 1..Len(api_registry) :
            api_registry[i] = [name |-> last.id, api |-> ModuleClass(last.id)]
        /\ last.outcome.kind = "return"
        /\ last.outcome.text = "api"
        /\ last.outcome.value.api = ModuleClass(last.id)

\* C20: a name that is not a registered API name but is a method of some
\* registered API resolves to that method of such an API, and a name that
\* no registered API has raises AttributeError.
C20_MethodNamesResolve ==
    (last.op = "getattr"
     /\ \A i \in 1..Len(api_registry) : api_registry[i].name # last.id) =>
        LET holders == {i \in 1..Len(api_registry) :
                            last.id \in ClassMethods(api_registry[i].api)}
            known == \E i \in 1..Len(api_registry) :
                        last.id \in ClassMethods(api_registry[i].api)
                                    \cup InstanceAttributes(api_registry[i].api)
        IN  /\ holders # {} =>
                /\ last.outcome.kind = "return"
                /\ last.outcome.text = "attr"
                /\ last.outcome.value.attr = last.id
                /\ \E i \in holders :
                    last.outcome.value.api = api_registry[i].api
            /\ ~known =>
                /\ last.outcome.kind = "raise"
                /\ last.outcome.exc = "AttributeError"

\* client.rostering.list_students: a method that two registered APIs have
C20_Witness ==
    /\ last.op = "getattr"
    /\ last.id = "list_students"
    /\ last.outcome.kind = "return"
    /\ last.outcome.value = [api |-> "UsersAPI", attr |-> "list_students"]

\* ------------------------------------------------------------------------
\* PowerPath
\* ------------------------------------------------------------------------
ApiEventsOfLast == {i \in 1..Len(last.events) : last.events[i].kind = "api"}

\* the one request of a wrapper: method, endpoint, body and parameters
SentOnce(method, endpoint, body, params) ==
    /\ Cardinality(ApiEventsOfLast) = 1
    /\ \A i \in ApiEventsOfLast :
        /\ last.events[i].method = method
        /\ last.events[i].endpoint = endpoint
        /\ last.events[i].body = body
        /\ last.events[i].params = params

TokenRefused ==
    \E i \in 1..Len(last.events) :
        last.events[i].kind = "token" /\ IsHTTPError(last.events[i].status)

\* C15: each PowerPath test-assignment wrapper issues exactly one request,
\* with the right endpoint and method and its arguments unchanged:
\* create -> POST /test-assignments with the body; update -> PUT
\* /test-assignments/{id} with the body; get -> GET /test-assignments/{id};
\* delete -> DELETE /test-assignments/{id}; list -> GET /test-assignments
\* with the query parameters; admin list -> GET /test-assignments/admin
\* with the parameters supplied.
C15_TestAssignmentWrappers ==
    (last.op \in TestAssignmentWrappers /\ ~TokenRefused) =>
        LET body == Dict(last.arg.fields)
            id == last.id
        IN  CASE last.op = "create_test_assignment" ->
                    SentOnce("POST", <<"test-assignments">>, body, EmptyDict)
              [] last.op = "update_test_assignment" ->
                    SentOnce("PUT", <<"test-assignments", id>>, body, EmptyDict)
              [] last.op = "get_test_assignment" ->
                    SentOnce("GET", <<"test-assignments", id>>, NoneBody, EmptyDict)
              [] last.op = "delete_test_assignment" ->
                    SentOnce("DELETE", <<"test-assignments", id>>, NoneBody, EmptyDict)
              [] last.op = "list_test_assignments" ->
                    SentOnce("GET", <<"test-assignments">>, NoneBody, last.arg.params)
              [] OTHER ->
                    SentOnce("GET", <<"test-assignments", "admin">>, NoneBody,
                             last.arg.params)

\* ------------------------------------------------------------------------
\* Users
\* ------------------------------------------------------------------------
\* a create_user call whose caller gave no sourcedId: a dict without the
\* key, or a User built without it (the model then holds the generated one)
NoSourcedIdSupplied ==
    /\ cls = "UsersAPI"
    /\ last.op = "create"
    /\ \/ "sourcedId" \notin DOMAIN last.arg.fields
       \/ last.arg.fields["sourcedId"] = "generated"

NothingSent == \A i \in 1..Len(last.events) : last.events[i].kind # "api"

\* C16: creating a user for which the caller supplied no sourcedId raises
\* ValueError, at the construction of the model or in create_user, and no
\* POST /users is sent for it.
C16_NoSourcedIdIsValueError ==
    NoSourcedIdSupplied =>
        /\ last.outcome.kind = "raise"
        /\ last.outcome.exc = "ValueError"
        /\ NothingSent

\* ------------------------------------------------------------------------
\* Resources
\* ------------------------------------------------------------------------
\* a create_resource call with a dict that has title, type and status and
\* no vendorResourceId
ResourceWithoutVendorId ==
    /\ cls = "ResourcesAPI"
    /\ last.op = "create"
    /\ last.arg.form # "model"
    /\ {"title", "type", "status"} \subseteq DOMAIN last.arg.fields
    /\ "vendorResourceId" \notin DOMAIN last.arg.fields

PostsOfLast ==
    {i \in 1..Len(last.events) :
        last.events[i].kind = "api" /\ last.events[i].method = "POST"}

\* C17: create_resource accepts a resource dict with title, type and status
\* and no vendorResourceId: it sends the dict in one POST /resources and
\* returns the server's sourcedIdPairs.
C17_ResourceWithoutVendorIdAccepted ==
    (ResourceWithoutVendorId /\ ~TokenRefused) =>
        /\ Cardinality(PostsOfLast) = 1
        /\ \A i \in PostsOfLast :
            /\ last.events[i].endpoint = <<"resources">>
            /\ last.events[i].body = Wrap("resource", Dict(last.arg.fields))
        /\ last.outcome.kind = "return"
        /\ last.outcome.value.env = <<"sourcedIdPairs">>

\* ------------------------------------------------------------------------
\* Classes of a teacher
\* ------------------------------------------------------------------------
\* the classes in which the teacher has an enrollment with role 'teacher'
\* and that match the optional filter
ClassesTaught(teacher_id, filter_expr) ==
    {store.classes[i].sourcedId : i \in
        {j \in 1..Len(store.classes) :
            /\ \E k \in 1..Len(store.enrollments) :
                /\ store.enrollments[k].user.sourcedId = teacher_id
                /\ store.enrollments[k].role = "teacher"
                /\ store.enrollments[k].class.sourcedId
                        = store.classes[j].sourcedId
            /\ Eval(store.classes[j], filter_expr)}}

ClassesReturned ==
    {last.outcome.value.items[i].sourcedId :
        i \in 1..Len(last.outcome.value.items)}

\* C18: called without limit or offset, get_classes_for_teacher returns all
\* classes taught by the teacher: every class in which the teacher has an
\* enrollment with role 'teacher' (and that matches the optional filter) is
\* in the result, and no other class is.
C18_AllClassesOfTeacher ==
    (last.op = "get_classes_for_teacher" /\ last.outcome.kind = "return") =>
        ClassesReturned = ClassesTaught(last.arg.teacher_id, last.arg.filter_expr)

\* ------------------------------------------------------------------------
\* Model helpers
\* ------------------------------------------------------------------------
\* a helper call with every required argument given and, when org is among
\* the keyword arguments, an org that has a sourcedId
HelperCalledAsDocumented ==
    /\ last.op = "model_create"
    /\ \A k \in DOMAIN last.arg.fields : last.arg.fields[k] # ""
    /\ "org" \in DOMAIN last.arg.kwargs => last.arg.kwargs["org"] # "nosid"

\* C19: Course.create(title, courseCode, **kwargs) and
\* AcademicSession.create(title, type, startDate, endDate, schoolYear,
\* **kwargs) return a new instance with an auto-generated sourcedId and
\* dateLastModified, also when org={'sourcedId': ...} is among the keyword
\* arguments.
C19_HelpersReturnInstance ==
    HelperCalledAsDocumented =>
        /\ last.outcome.kind = "return"
        /\ last.outcome.value.fields["sourcedId"] = "generated"
        /\ last.outcome.value.fields["dateLastModified"] = "now"

\* ------------------------------------------------------------------------
\* Authorization
\* ------------------------------------------------------------------------
TokenEventsOfLast == {i \in 1..Len(last.events) : last.events[i].kind = "token"}

\* the token the instance holds when request i is sent: the one granted
\* for it, else the one that was cached when its _make_request began
CurrentTokenAt(i) ==
    LET granted == {j \in TokenEventsOfLast :
                        /\ last.events[j].req = last.events[i].req
                        /\ last.events[j].granted # None}
    IN  IF granted # {}
        THEN last.events[CHOOSE j \in granted : TRUE].granted
        ELSE last.events[i].pre.tok

\* C21: every API request of an instance configured with client_id and
\* client_secret carries an Authorization: Bearer header with the
\* instance's current token; an instance without credentials sends no token
\* request and no Authorization header.
C21_AuthorizedWhenConfigured ==
    /\ HasCredentials =>
        \A i \in ApiEventsOfLast :
            /\ last.events[i].auth # None
            /\ last.events[i].auth = CurrentTokenAt(i)
    /\ ~HasCredentials =>
        /\ TokenEventsOfLast = {}
        /\ \A i \in ApiEventsOfLast : last.events[i].auth = None

\* ------------------------------------------------------------------------
\* Staging and production
\* ------------------------------------------------------------------------
MutatingMethods == {"POST", "PUT", "DELETE"}

\* C22: a client configured for the staging environment never sends a
\* mutating request (POST, PUT or DELETE) to the production QTI endpoint.
C22_StagingNeverMutatesProduction ==
    environment = "staging" =>
        \A i \in ApiEventsOfLast :
            last.events[i].method \in MutatingMethods
                => last.events[i].host # DEFAULT_QTI_PRODUCTION_URL

\* ------------------------------------------------------------------------
\* Failed token requests
\* ------------------------------------------------------------------------
\* the token requests of the last call that the identity provider refused
TokenFailures ==
    {j \in TokenEventsOfLast : IsHTTPError(last.events[j].status)}

\* the last call ended with a refused token request
EndedInTokenFailure ==
    last.events # <<>> /\ Len(last.events) \in TokenFailures

C24_ResetProgressRestoresPath ==
    /\ [](cls = "EnrollmentsAPI" =>
            \A i \in ApiEventsOfLast :
                IF last.op = "reset_progress"
                THEN /\ last.events[i].method = "DELETE"
                     /\ last.events[i].host = base_url
                     /\ last.events[i].path = EDUBRIDGE_PATH
                     /\ last.events[i].endpoint
                            = <<"enrollments", "resetProgress", last.id, "id1">>
                ELSE last.events[i].path = ROSTERING_PATH)
    /\ [][last'.op = "reset_progress" => api_path' = api_path]_vars

\* the request of reset_progress was answered with an error, the call
\* raised, and api_path is the rostering path again
C24_Witness ==
    /\ last.op = "reset_progress"
    /\ last.outcome.kind = "raise"
    /\ \E i \in ApiEventsOfLast :
        /\ last.events[i].path = EDUBRIDGE_PATH
        /\ IsHTTPError(last.events[i].status)
    /\ api_path = ROSTERING_PATH

\* ------------------------------------------------------------------------
\* Updates
\* ------------------------------------------------------------------------
PutsOfLast ==
    {i \in ApiEventsOfLast : last.events[i].method = "PUT"}

\* C25: in every update request the sourcedId in the body equals the id in
\* the URL: the URL parameter replaces a different or missing sourcedId in
\* the payload, for model and dict inputs alike.
C25_BodyIdIsUrlId ==
    last.op = "update" =>
        \A i \in PutsOfLast :
            /\ last.events[i].endpoint = Endpoint(cls) \o <<last.id>>
            /\ "sourcedId" \in DOMAIN last.events[i].body.fields
            /\ last.events[i].body.fields["sourcedId"] = last.id


\* C26: every token request of a service or registered API instance of a
\* client goes to the staging identity provider when the client's effective
\* environment (the environment argument, else TIMEBACK_ENVIRONMENT, else
\* production; lower-cased) is staging, and to the production identity
\* provider otherwise.
ClientIsStaging ==
    \/ client.argument \in {"staging", "Staging", "STAGING"}
    \/ /\ client.argument = ""
       /\ client.env_var \in {"staging", "Staging", "STAGING"}

C26_TokenRequestsFollowClient ==
    \A j \in TokenEventsOfLast :
        last.events[j].host =
            (IF ClientIsStaging THEN STAGING_IDP ELSE PRODUCTION_IDP)

C26_Witness ==
    /\ cls \notin ServiceClasses
    /\ client.argument = ""
    /\ client.env_var = "Staging"
    /\ TokenEventsOfLast # {}
    /\ \A j \in TokenEventsOfLast : last.events[j].host = STAGING_IDP


\* C27: under any interleaving of concurrent calls on one service instance,
\* the cached expiry is never later than (issue time + expires_in - 60
\* seconds) of the token that is cached with it. It is required here only
\* of the states in which no thread stands between its two assignments.
OwnExpiry(token) ==
    grants[token].issued_at + grants[token].expires_in - RefreshMargin

NoAssignmentPending == \A t \in Threads : threads[t].pc # "set_expiry"

C27_CachedExpiryIsOfCachedToken ==
    (NoAssignmentPending /\ access_token # None /\ token_expiry # None)
        => token_expiry <= OwnExpiry(access_token)

====
